---- MODULE Spec2Model ----
(***************************************************************************)
(* A model of the course-platform backend (FastAPI handlers over a MongoDB *)
(* document store).  Every collection is a set of documents (records);     *)
(* every handler is one action that carries the whole request: identity    *)
(* resolution, role gate, the handler body and every helper it calls.      *)
(* Requests do not overlap in the specifications below unless a            *)
(* specification says so.                                                  *)
(***************************************************************************)
EXTENDS Integers, Sequences, FiniteSets, TLC

VARIABLES
    admins, teachers, students,          \* account collections
    sessions, device_resets,             \* session registry, device reset requests
    courses, topics, videos, comments,   \* catalog collections
    user_courses, user_progress,         \* assignments, progress rows
    certificates,                        \* certificates
    stored_files,                        \* keys of the course media files in storage
    issued,                              \* number of uuid4() values drawn, per kind of document
    SINGLE_SESSION, MAX_ACTIVE_DEVICES,  \* deployment configuration (utils.security)
    pc,                                  \* local variables of the script or requests in progress
    resp                                 \* the last request and its response

acctVars    == <<admins, teachers, students>>
catalogVars == <<courses, topics, videos, comments>>
enrolVars   == <<user_courses, user_progress>>
\* The configuration and the frames in progress: no whole-request handler writes them.
configVars  == <<SINGLE_SESSION, MAX_ACTIVE_DEVICES, pc>>
vars == <<admins, teachers, students, sessions, device_resets, courses, topics,
          videos, comments, user_courses, user_progress, certificates, stored_files,
          issued, SINGLE_SESSION, MAX_ACTIVE_DEVICES, pc, resp>>

-----------------------------------------------------------------------------
(* Bounds of the model *)

MaxSessions == 3      \* sessions ever created
MaxResets == 1        \* resolved device reset requests after which no request is created
MaxDevices == 2       \* largest configured MAX_ACTIVE_DEVICES that is explored

NoFrames == <<>>      \* no script is running and no request is part-way through

-----------------------------------------------------------------------------
(* Identifiers.  uuid4() never repeats: the n-th identifier of a kind is    *)
(* <<kind, n>>.                                                             *)

uuid4(kind) == <<kind, issued[kind] + 1>>

Drawn(kind) == [issued EXCEPT ![kind] = @ + 1]

NoToken == <<"none", 0>>          \* a missing, malformed, forged or expired bearer token
Unknown(kind) == <<kind, 0>>      \* an identifier that names no document
None == <<"none", 0>>

Kinds == {"session", "reset", "student", "course", "topic", "video", "comment", "assignment",
          "certificate", "file", "teacher"}

-----------------------------------------------------------------------------
(* Session registry: utils/sessions.py.  Timestamps are logical: utcnow()   *)
(* of a request is later than every timestamp stored so far.                *)

MaxOf(T) == IF T = {} THEN 0 ELSE CHOOSE m \in T : \A x \in T : x <= m

utcnow(S) == 1 + MaxOf({s.last_used_at : s \in S})

(* The code reads last_used_at only to order the non-revoked sessions of    *)
(* one user (get_active_sessions, list_sessions).  Canon keeps exactly that *)
(* order: last_used_at becomes the rank of the session among the active     *)
(* sessions of its user, and 0 for a revoked session, whose timestamp is    *)
(* never read again.  Every action stores Canon of the sessions it computed,*)
(* which keeps the timestamps bounded without changing any comparison.      *)
Canon(S) ==
    {IF s.revoked THEN [s EXCEPT !.last_used_at = 0]
     ELSE [s EXCEPT !.last_used_at =
              1 + Cardinality({x \in S : /\ x.user_uuid = s.user_uuid /\ ~x.revoked
                                         /\ x.last_used_at < s.last_used_at})]
     : s \in S}

create_session(S, sid, user_uuid, role) ==
    S \cup {[session_id |-> sid, user_uuid |-> user_uuid, role |-> role,
             last_used_at |-> utcnow(S), revoked |-> FALSE]}

get_active_sessions(S, user_uuid) ==
    LET A == {s \in S : s.user_uuid = user_uuid /\ ~s.revoked}
    IN  [i \in 1..Cardinality(A) |->
            CHOOSE s \in A : Cardinality({x \in A : x.last_used_at < s.last_used_at}) = i - 1]

revoke_session(S, session_id) ==
    {IF s.session_id = session_id THEN [s EXCEPT !.revoked = TRUE] ELSE s : s \in S}

revoke_all_sessions_noop(S, user_uuid) == S

revoke_all_sessions(S, user_uuid) ==
    {IF s.user_uuid = user_uuid /\ ~s.revoked THEN [s EXCEPT !.revoked = TRUE] ELSE s : s \in S}

enforce_device_limit_newest(S, user_uuid, max_devices) ==
    LET active == get_active_sessions(S, user_uuid)
    IN  IF Len(active) <= max_devices
        THEN [sessions |-> S, evicted |-> None]
        ELSE [sessions |-> revoke_session(S, active[Len(active)].session_id),
              evicted |-> active[Len(active)].session_id]

enforce_device_limit(S, user_uuid, max_devices) ==
    LET active == get_active_sessions(S, user_uuid)
    IN  IF Len(active) <= max_devices
        THEN [sessions |-> S, evicted |-> None]
        ELSE [sessions |-> revoke_session(S, active[1].session_id),
              evicted |-> active[1].session_id]

is_session_active_ignoring_revoked(S, session_id) ==
    \E s \in S : s.session_id = session_id

is_session_active(S, session_id) ==
    \E s \in S : s.session_id = session_id /\ ~s.revoked

SessionOf(S, session_id) == CHOOSE s \in S : s.session_id = session_id

-----------------------------------------------------------------------------
(* Identity resolution and role gates: utils/dependencies.py.  A token that *)
(* passes jwt.decode carries the claims of the session it was issued for.   *)

touch(S, session_id) ==
    {IF s.session_id = session_id THEN [s EXCEPT !.last_used_at = utcnow(S)] ELSE s : s \in S}

NoIdentity == [session_id |-> NoToken, role |-> "none", user_uuid |-> None]

get_current_identity(S, token) ==
    IF token = NoToken
    THEN [status |-> 401, sessions |-> S, identity |-> NoIdentity]
    ELSE IF ~is_session_active(S, token)
    THEN [status |-> 401, sessions |-> S, identity |-> NoIdentity]
    ELSE [status |-> 200, sessions |-> touch(S, token),
          identity |-> [session_id |-> token, role |-> SessionOf(S, token).role,
                        user_uuid |-> SessionOf(S, token).user_uuid]]

require_admin(S, token) ==
    LET auth == get_current_identity(S, token)
    IN  IF auth.status = 200 /\ auth.identity.role # "admin"
        THEN [auth EXCEPT !.status = 403] ELSE auth

require_admin_or_teacher_any_role(S, token) == get_current_identity(S, token)

require_admin_or_teacher(S, token) ==
    LET auth == get_current_identity(S, token)
    IN  IF auth.status = 200 /\ auth.identity.role \notin {"admin", "teacher"}
        THEN [auth EXCEPT !.status = 403] ELSE auth

Tokens == {s.session_id : s \in sessions} \cup {NoToken}

Response(op, status, token, out) ==
    [op |-> op, status |-> status, token |-> token, out |-> out]

-----------------------------------------------------------------------------
(* routes/auth.py *)

FindByEmail(coll, email_id) == {u \in coll : u.email_id = email_id}

Emails == {u.email_id : u \in admins \cup students \cup teachers} \cup {"nobody@x"}

\* POST /auth/login.  password_ok is the outcome of verify_password.
login(email_id, password_ok) ==
    LET a == FindByEmail(admins, email_id)
        s == FindByEmail(students, email_id)
        t == FindByEmail(teachers, email_id)
        role == IF a # {} THEN "admin" ELSE IF s # {} THEN "student"
                ELSE IF t # {} THEN "teacher" ELSE "none"
        found == IF a # {} THEN a ELSE IF s # {} THEN s ELSE t
    IN  IF role = "none" \/ ~password_ok
        THEN /\ resp' = Response("login", 401, NoToken, None)
             /\ UNCHANGED <<sessions, issued>>
        ELSE LET user_uuid == (CHOOSE u \in found : TRUE).uuid_id
                 S1 == IF SINGLE_SESSION THEN revoke_all_sessions(sessions, user_uuid)
                       ELSE sessions
                 sid == uuid4("session")
                 S2 == create_session(S1, sid, user_uuid, role)
                 lim == enforce_device_limit(S2, user_uuid, MAX_ACTIVE_DEVICES)
             IN  /\ issued["session"] < MaxSessions
                 /\ sessions' = Canon(lim.sessions)
                 /\ issued' = Drawn("session")
                 /\ resp' = Response("login", 200, sid, lim.evicted)

Login ==
    /\ \E email_id \in Emails, password_ok \in BOOLEAN :
          login(email_id, password_ok)
    /\ UNCHANGED <<acctVars, device_resets, catalogVars, enrolVars, certificates, stored_files, configVars>>

\* GET /auth/sessions
list_sessions(token) ==
    LET auth == get_current_identity(sessions, token)
    IN  /\ sessions' = Canon(auth.sessions)
        /\ resp' = Response("list_sessions", auth.status, token,
                            IF auth.status # 200 THEN {}
                            ELSE {s.session_id : s \in {x \in sessions :
                                     x.user_uuid = auth.identity.user_uuid /\ ~x.revoked}})

ListSessions ==
    /\ \E token \in Tokens : list_sessions(token)
    /\ UNCHANGED <<acctVars, device_resets, catalogVars, enrolVars, certificates, stored_files, configVars, issued>>

\* POST /auth/logout
logout_current(token) ==
    LET auth == get_current_identity(sessions, token)
    IN  /\ sessions' = Canon(IF auth.status # 200 THEN auth.sessions
                       ELSE revoke_session(auth.sessions, auth.identity.session_id))
        /\ resp' = Response("logout_current", auth.status, token, None)

LogoutCurrent ==
    /\ \E token \in Tokens : logout_current(token)
    /\ UNCHANGED <<acctVars, device_resets, catalogVars, enrolVars, certificates, stored_files, configVars, issued>>

\* POST /auth/logout-all
logout_all(token) ==
    LET auth == get_current_identity(sessions, token)
    IN  /\ sessions' = Canon(IF auth.status # 200 THEN auth.sessions
                       ELSE revoke_all_sessions(auth.sessions, auth.identity.user_uuid))
        /\ resp' = Response("logout_all", auth.status, token, None)

LogoutAll ==
    /\ \E token \in Tokens : logout_all(token)
    /\ UNCHANGED <<acctVars, device_resets, catalogVars, enrolVars, certificates, stored_files, configVars, issued>>

-----------------------------------------------------------------------------
(* routes/devices.py *)

\* The pending-request lookup that never finds a document.
find_pending_none(D, student_uuid) == {}

\* device_resets.find_one({"student_uuid": ..., "status": "pending"})
find_pending(D, student_uuid) ==
    {r \in D : r.student_uuid = student_uuid /\ r.status = "pending"}

\* POST /devices/reset-request
request_device_reset(token) ==
    LET auth == get_current_identity(sessions, token)
        existing == find_pending(device_resets, auth.identity.user_uuid)
    IN  /\ sessions' = Canon(auth.sessions)
        /\ IF auth.status # 200
           THEN /\ resp' = Response("request_device_reset", auth.status, token, None)
                /\ UNCHANGED <<device_resets, issued>>
           ELSE IF auth.identity.role # "student"
           THEN /\ resp' = Response("request_device_reset", 403, token, None)
                /\ UNCHANGED <<device_resets, issued>>
           ELSE IF existing # {}
           THEN /\ resp' = Response("request_device_reset", 201, token,
                                    (CHOOSE r \in existing : TRUE).request_id)
                /\ UNCHANGED <<device_resets, issued>>
           ELSE /\ Cardinality({r \in device_resets : r.status # "pending"}) < MaxResets
                /\ device_resets' = device_resets \cup
                      {[request_id |-> uuid4("reset"), student_uuid |-> auth.identity.user_uuid,
                        status |-> "pending", resolved_by_uuid |-> None]}
                /\ issued' = Drawn("reset")
                /\ resp' = Response("request_device_reset", 201, token, uuid4("reset"))

RequestDeviceReset ==
    /\ \E token \in Tokens : request_device_reset(token)
    /\ UNCHANGED <<acctVars, catalogVars, enrolVars, certificates, stored_files, configVars>>

ResetIds == {r.request_id : r \in device_resets} \cup {Unknown("reset")}

\* POST /devices/reset-requests/{request_id}/approve
approve_device_reset(token, request_id) ==
    LET auth == require_admin(sessions, token)
        req == {r \in device_resets : r.request_id = request_id}
    IN  IF auth.status # 200
        THEN /\ resp' = Response("approve_device_reset", auth.status, token, None)
             /\ sessions' = Canon(auth.sessions)
             /\ UNCHANGED device_resets
        ELSE IF req = {}
        THEN /\ resp' = Response("approve_device_reset", 404, token, None)
             /\ sessions' = Canon(auth.sessions)
             /\ UNCHANGED device_resets
        ELSE IF (CHOOSE r \in req : TRUE).status # "pending"
        THEN /\ resp' = Response("approve_device_reset", 400, token, None)
             /\ sessions' = Canon(auth.sessions)
             /\ UNCHANGED device_resets
        ELSE /\ sessions' = Canon(revoke_all_sessions(auth.sessions, (CHOOSE r \in req : TRUE).student_uuid))
             /\ device_resets' = {IF r.request_id = request_id
                                  THEN [r EXCEPT !.status = "approved",
                                                 !.resolved_by_uuid = auth.identity.user_uuid]
                                  ELSE r : r \in device_resets}
             /\ resp' = Response("approve_device_reset", 200, token, "approved")

ApproveDeviceReset ==
    /\ \E token \in Tokens, request_id \in ResetIds : approve_device_reset(token, request_id)
    /\ UNCHANGED <<acctVars, catalogVars, enrolVars, certificates, stored_files, configVars, issued>>

\* The rejection without its test that the request is still pending.
reject_device_reset_any_status(token, request_id) ==
    LET auth == require_admin(sessions, token)
        req == {r \in device_resets : r.request_id = request_id}
    IN  /\ sessions' = Canon(auth.sessions)
        /\ IF auth.status # 200
           THEN /\ resp' = Response("reject_device_reset", auth.status, token, None)
                /\ UNCHANGED device_resets
           ELSE IF req = {}
           THEN /\ resp' = Response("reject_device_reset", 404, token, None)
                /\ UNCHANGED device_resets
           ELSE /\ device_resets' = {IF r.request_id = request_id
                                     THEN [r EXCEPT !.status = "rejected",
                                                    !.resolved_by_uuid = auth.identity.user_uuid]
                                     ELSE r : r \in device_resets}
                /\ resp' = Response("reject_device_reset", 200, token, "rejected")

\* POST /devices/reset-requests/{request_id}/reject
reject_device_reset(token, request_id) ==
    LET auth == require_admin(sessions, token)
        req == {r \in device_resets : r.request_id = request_id}
    IN  /\ sessions' = Canon(auth.sessions)
        /\ IF auth.status # 200
           THEN /\ resp' = Response("reject_device_reset", auth.status, token, None)
                /\ UNCHANGED device_resets
           ELSE IF req = {}
           THEN /\ resp' = Response("reject_device_reset", 404, token, None)
                /\ UNCHANGED device_resets
           ELSE IF (CHOOSE r \in req : TRUE).status # "pending"
           THEN /\ resp' = Response("reject_device_reset", 400, token, None)
                /\ UNCHANGED device_resets
           ELSE /\ device_resets' = {IF r.request_id = request_id
                                     THEN [r EXCEPT !.status = "rejected",
                                                    !.resolved_by_uuid = auth.identity.user_uuid]
                                     ELSE r : r \in device_resets}
                /\ resp' = Response("reject_device_reset", 200, token, "rejected")

RejectDeviceReset ==
    /\ \E token \in Tokens, request_id \in ResetIds : reject_device_reset(token, request_id)
    /\ UNCHANGED <<acctVars, catalogVars, enrolVars, certificates, stored_files, configVars, issued>>

-----------------------------------------------------------------------------
(* Accounts that exist before the explored requests start. *)

Admin1   == [uuid_id |-> <<"admin", 1>>, email_id |-> "admin@x"]
Teacher1 == [uuid_id |-> <<"teacher", 1>>, email_id |-> "t1@x"]
Student1 == [uuid_id |-> <<"student", 1>>, email_id |-> "s1@x", department |-> "CS"]
Student2 == [uuid_id |-> <<"student", 2>>, email_id |-> "s2@x", department |-> "EE"]

NoResponse == Response("none", 0, NoToken, None)

\* The deployment's session policy: any flag, and a device limit of at least one.
Config ==
    /\ SINGLE_SESSION \in BOOLEAN
    /\ MAX_ACTIVE_DEVICES \in 1..MaxDevices
    /\ pc = NoFrames

-----------------------------------------------------------------------------
(* The session specification: logins, logouts, device resets and a          *)
(* protected read, for an admin and a student, with no session at start.    *)

InitSession ==
    /\ admins = {Admin1}
    /\ teachers = {}
    /\ students = {Student1}
    /\ sessions = {}
    /\ device_resets = {}
    /\ courses = {} /\ topics = {} /\ videos = {} /\ comments = {}
    /\ user_courses = {} /\ user_progress = {} /\ certificates = {} /\ stored_files = {}
    /\ issued = [k \in Kinds |-> IF k = "student" THEN 1 ELSE 0]
    /\ Config
    /\ resp = NoResponse

NextSession ==
    \/ Login
    \/ ListSessions
    \/ LogoutCurrent
    \/ LogoutAll
    \/ RequestDeviceReset
    \/ ApproveDeviceReset
    \/ RejectDeviceReset

SpecSession == InitSession /\ [][NextSession]_vars

-----------------------------------------------------------------------------
(* Claims about the session registry, checked under SpecSession. *)

ProtectedOps == {"list_sessions", "logout_current", "logout_all",
                 "request_device_reset", "approve_device_reset", "reject_device_reset"}

ActiveIds(S, user_uuid) == {s.session_id : s \in {x \in S : x.user_uuid = user_uuid /\ ~x.revoked}}

\* C1: a revoked session is never active again, whatever the next request is,
\* and a protected request that carries a revoked session's token is answered 401.
C1_RevokedSessionStaysRejected ==
    [][\A s \in sessions : s.revoked =>
          /\ \E x \in sessions' : x.session_id = s.session_id /\ x.revoked
          /\ (resp'.op \in ProtectedOps /\ resp'.token = s.session_id) => resp'.status = 401
      ]_vars

\* A student's session was revoked by an approved device reset and the student's
\* next protected request with that token was answered 401.
C1_Witness ==
    /\ resp.op \in ProtectedOps
    /\ resp.status = 401
    /\ \E s \in sessions : /\ s.session_id = resp.token
                           /\ s.revoked
                           /\ \E r \in device_resets : r.status = "approved"
                                                       /\ r.student_uuid = s.user_uuid

\* C4: with the single-session policy no user ever has two active sessions, and
\* right after a successful login the user's only active session is the new one.
C4_SingleSessionLeavesLatest ==
    SINGLE_SESSION =>
        /\ \A s \in sessions : Cardinality(ActiveIds(sessions, s.user_uuid)) <= 1
        /\ (resp.op = "login" /\ resp.status = 200) =>
              ActiveIds(sessions, SessionOf(sessions, resp.token).user_uuid) = {resp.token}

\* The third login of one user under the single-session policy, with a device
\* limit that would have allowed two sessions.
C4_Witness ==
    /\ SINGLE_SESSION
    /\ MAX_ACTIVE_DEVICES = 2
    /\ pc = NoFrames
    /\ resp.op = "login" /\ resp.status = 200
    /\ Cardinality({s \in sessions : /\ s.user_uuid = SessionOf(sessions, resp.token).user_uuid
                                     /\ s.revoked}) = 2

\* C5: a successful login without the single-session policy revokes, through
\* enforce_device_limit, exactly the least recently used of the user's previously
\* active sessions when these plus the new one exceed MAX_ACTIVE_DEVICES, and
\* nothing otherwise; the new session is active afterwards in both cases and no
\* other user's session changes.
C5_DeviceLimitEvictsOldest ==
    [][(resp'.op = "login" /\ resp'.status = 200 /\ ~SINGLE_SESSION) =>
          LET new == resp'.token
              u == SessionOf(sessions', new).user_uuid
              before == {s \in sessions : s.user_uuid = u /\ ~s.revoked}
              evicted == {s.session_id : s \in {x \in before :
                              SessionOf(sessions', x.session_id).revoked}}
          IN  /\ ~SessionOf(sessions', new).revoked
              /\ \A s \in sessions : s.user_uuid # u =>
                    SessionOf(sessions', s.session_id).revoked = s.revoked
              /\ IF Cardinality(before) + 1 > MAX_ACTIVE_DEVICES
                 THEN \E o \in before :
                         /\ \A x \in before : o.last_used_at <= x.last_used_at
                         /\ evicted = {o.session_id}
                         /\ resp'.out = o.session_id
                 ELSE evicted = {} /\ resp'.out = None
      ]_vars

\* A login evicted a session although an older-created session of the same user,
\* used more recently, stays active.
C5_Witness ==
    /\ ~SINGLE_SESSION
    /\ resp.op = "login" /\ resp.status = 200 /\ resp.out # None
    /\ SessionOf(sessions, resp.out).revoked
    /\ \E s \in sessions : /\ s.user_uuid = SessionOf(sessions, resp.out).user_uuid
                           /\ ~s.revoked
                           /\ s.session_id[2] < resp.out[2]

-----------------------------------------------------------------------------
(* The catalog: courses, topics, videos.                                    *)
(* config/database.py creates unique indexes on topics (course_uuid,        *)
(* order_index) and videos (topic_uuid, order_index).  MongoDB checks a      *)
(* unique index on every single document write; update_many writes the      *)
(* matched documents one at a time in an order the server chooses, stops at  *)
(* the first DuplicateKeyError and keeps the writes already made.  The       *)
(* handlers do not catch the error, so the request ends with status 500.     *)

MaxItems == 4         \* topics and videos ever created, together; also the largest
                      \* order_index a create may start from
MaxOrder == 3         \* largest order_index a request asks for

\* update_many(filter, {"$inc": {"order_index": delta}}) on the documents G of
\* one index scope, M the matched ones: every outcome the write order allows.
RECURSIVE update_many_inc(_, _, _)
update_many_inc(G, M, delta) ==
    IF M = {} THEN {[docs |-> G, ok |-> TRUE]}
    ELSE UNION {LET moved == [d EXCEPT !.order_index = @ + delta]
                IN  IF \E e \in G \ {d} : e.order_index = moved.order_index
                    THEN {[docs |-> G, ok |-> FALSE]}
                    ELSE update_many_inc((G \ {d}) \cup {moved}, M \ {d}, delta)
                : d \in M}

\* update_one({"uuid_id": id}, {"$set": {"order_index": new}}) under the same index.
set_order_index(G, uuid_id, new) ==
    IF \E e \in G : e.uuid_id # uuid_id /\ e.order_index = new
    THEN [docs |-> G, ok |-> FALSE]
    ELSE [docs |-> {IF e.uuid_id = uuid_id THEN [e EXCEPT !.order_index = new] ELSE e : e \in G},
          ok |-> TRUE]

\* The order_index a create uses when the request gives none: last + 1, or 1.
next_order(G) == MaxOf({d.order_index : d \in G}) + 1

recompute_course_counts(C, T, V, Cm, course_uuid) ==
    {IF c.uuid_id = course_uuid
     THEN [c EXCEPT !.total_topics = Cardinality({t \in T : t.course_uuid = course_uuid}),
                    !.total_videos = Cardinality({v \in V : v.course_uuid = course_uuid}),
                    !.total_comments = Cardinality({m \in Cm : /\ m.course_uuid = course_uuid
                                                               /\ m.status # "deleted"})]
     ELSE c : c \in C}

CourseIds == {c.uuid_id : c \in courses} \cup {Unknown("course")}
TopicIds == {t.uuid_id : t \in topics} \cup {Unknown("topic")}
VideoIds == {v.uuid_id : v \in videos} \cup {Unknown("video")}
NoOrder == 0          \* the request carries no order_index
Min(a, b) == IF a <= b THEN a ELSE b
\* The order_index values a request asks for: none, or a place from 1 to n.
Orders(n) == (1..Min(n, MaxOrder)) \cup {NoOrder}
TopicsOf(course_id) == {t \in topics : t.course_uuid = course_id}
VideosOf(topic_id) == {v \in videos : v.topic_uuid = topic_id}

-----------------------------------------------------------------------------
(* routes/topics.py *)

\* POST /topics/course/{course_id}
create_topic(token, course_id, order_index) ==
    LET auth == require_admin_or_teacher(sessions, token)
        req == [course_id |-> course_id, order_index |-> order_index, uuid_id |-> None]
        G == TopicsOf(course_id)
        order == IF order_index = NoOrder THEN next_order(G) ELSE order_index
        conflict == \E t \in G : t.order_index = order
        shifts == IF conflict
                  THEN update_many_inc(G, {t \in G : t.order_index >= order}, 1)
                  ELSE {[docs |-> G, ok |-> TRUE]}
        doc == [uuid_id |-> uuid4("topic"), course_uuid |-> course_id, order_index |-> order]
    IN  /\ sessions' = Canon(auth.sessions)
        /\ IF auth.status # 200
           THEN /\ resp' = Response("create_topic", auth.status, token, None)
                /\ UNCHANGED <<topics, courses, issued>>
           ELSE IF ~\E c \in courses : c.uuid_id = course_id
           THEN /\ resp' = Response("create_topic", 404, token, None)
                /\ UNCHANGED <<topics, courses, issued>>
           ELSE /\ issued["topic"] + issued["video"] < MaxItems
                /\ next_order(G) <= MaxItems
                /\ \E sh \in shifts :
                      IF ~sh.ok \/ \E t \in sh.docs : t.order_index = order
                      THEN /\ topics' = (topics \ G) \cup sh.docs
                           /\ resp' = Response("create_topic", 500, token, req)
                           /\ UNCHANGED <<courses, issued>>
                      ELSE /\ topics' = (topics \ G) \cup sh.docs \cup {doc}
                           /\ courses' = recompute_course_counts(courses, topics', videos,
                                                                 comments, course_id)
                           /\ issued' = Drawn("topic")
                           /\ resp' = Response("create_topic", 201, token,
                                               [req EXCEPT !.uuid_id = doc.uuid_id])

CreateTopic ==
    /\ \E token \in Tokens, course_id \in CourseIds :
          \E order_index \in Orders(next_order(TopicsOf(course_id))) :
             create_topic(token, course_id, order_index)
    /\ UNCHANGED <<acctVars, device_resets, videos, comments, enrolVars, certificates, stored_files, configVars>>

\* PUT /topics/{topic_id}
update_topic(token, topic_id, order_index) ==
    LET auth == require_admin_or_teacher(sessions, token)
        req == [uuid_id |-> topic_id, order_index |-> order_index]
    IN  /\ sessions' = Canon(auth.sessions)
        /\ IF auth.status # 200
           THEN /\ resp' = Response("update_topic", auth.status, token, None)
                /\ UNCHANGED topics
           ELSE IF ~\E t \in topics : t.uuid_id = topic_id
           THEN /\ resp' = Response("update_topic", 404, token, None)
                /\ UNCHANGED topics
           ELSE LET existing == CHOOSE t \in topics : t.uuid_id = topic_id
                    G == TopicsOf(existing.course_uuid)
                    new == order_index
                    shifts ==
                        IF new = NoOrder \/ new = existing.order_index
                        THEN {[docs |-> G, ok |-> TRUE]}
                        ELSE IF new < existing.order_index
                        THEN update_many_inc(G, {t \in G : /\ t.order_index >= new
                                                           /\ t.order_index < existing.order_index}, 1)
                        ELSE update_many_inc(G, {t \in G : /\ t.order_index > existing.order_index
                                                           /\ t.order_index <= new}, 0 - 1)
                IN  \E sh \in shifts :
                       LET set == IF new = NoOrder THEN sh ELSE set_order_index(sh.docs, topic_id, new)
                       IN  IF ~sh.ok \/ ~set.ok
                           THEN /\ topics' = (topics \ G) \cup sh.docs
                                /\ resp' = Response("update_topic", 500, token, req)
                           ELSE /\ topics' = (topics \ G) \cup set.docs
                                /\ resp' = Response("update_topic", 200, token, req)

UpdateTopic ==
    /\ \E token \in Tokens, topic_id \in TopicIds :
          \E order_index \in Orders(Cardinality({t \in topics : \E e \in topics :
                                         e.uuid_id = topic_id /\ t.course_uuid = e.course_uuid})) :
             update_topic(token, topic_id, order_index)
    /\ UNCHANGED <<acctVars, device_resets, courses, videos, comments, enrolVars, certificates, stored_files, configVars,
                   issued>>

\* DELETE /topics/{topic_id}
delete_topic(token, topic_id) ==
    LET auth == require_admin_or_teacher(sessions, token)
    IN  /\ sessions' = Canon(auth.sessions)
        /\ IF auth.status # 200
           THEN /\ resp' = Response("delete_topic", auth.status, token, None)
                /\ UNCHANGED <<courses, topics, videos, comments, user_progress>>
           ELSE IF ~\E t \in topics : t.uuid_id = topic_id
           THEN /\ resp' = Response("delete_topic", 404, token, None)
                /\ UNCHANGED <<courses, topics, videos, comments, user_progress>>
           ELSE LET existing == CHOOSE t \in topics : t.uuid_id = topic_id
                    vid_ids == {v.uuid_id : v \in {x \in videos : x.topic_uuid = topic_id}}
                IN  /\ comments' = {m \in comments :
                                      /\ ~(m.parent_type = "video" /\ m.parent_uuid \in vid_ids)
                                      /\ ~(m.parent_type = "topic" /\ m.parent_uuid = topic_id)}
                    /\ user_progress' = {p \in user_progress : p.video_uuid \notin vid_ids}
                    /\ videos' = {v \in videos : v.topic_uuid # topic_id}
                    /\ topics' = {t \in topics : t.uuid_id # topic_id}
                    /\ courses' = recompute_course_counts(courses, topics', videos', comments',
                                                          existing.course_uuid)
                    /\ resp' = Response("delete_topic", 204, token, topic_id)

DeleteTopic ==
    /\ \E token \in Tokens, topic_id \in TopicIds : delete_topic(token, topic_id)
    /\ UNCHANGED <<acctVars, device_resets, user_courses, certificates, stored_files, configVars, issued>>

-----------------------------------------------------------------------------
(* routes/videos.py, routes/uploads.py *)

use_s3 == FALSE       \* utils/s3_storage.py: USE_S3 defaults to "false" (local storage)
Missing == 0 - 1      \* a key the document does not have
Durations == {60}     \* the "duration" of the JSON part of a create request

\* POST /videos/topic/{topic_id}
create_video(token, topic_id, order_index, video_file, video_url, duration) ==
    LET auth == require_admin_or_teacher(sessions, token)
        req == [topic_id |-> topic_id, order_index |-> order_index, uuid_id |-> None]
    IN  /\ sessions' = Canon(auth.sessions)
        /\ IF auth.status # 200
           THEN /\ resp' = Response("create_video", auth.status, token, None)
                /\ UNCHANGED <<videos, courses, issued>>
           ELSE IF ~\E t \in topics : t.uuid_id = topic_id
           THEN /\ resp' = Response("create_video", 404, token, None)
                /\ UNCHANGED <<videos, courses, issued>>
           ELSE LET topic == CHOOSE t \in topics : t.uuid_id = topic_id
                    G == VideosOf(topic_id)
                    order == IF order_index = NoOrder THEN next_order(G) ELSE order_index
                    conflict == \E v \in G : v.order_index = order
                    shifts == IF conflict
                              THEN update_many_inc(G, {v \in G : v.order_index >= order}, 1)
                              ELSE {[docs |-> G, ok |-> TRUE]}
                    doc == [uuid_id |-> uuid4("video"),
                            course_uuid |-> topic.course_uuid,
                            topic_uuid |-> topic_id,
                            order_index |-> order,
                            source_type |-> IF video_file THEN "upload" ELSE "url",
                            storage_key |-> video_file,
                            video_url |-> IF video_file THEN use_s3 ELSE video_url,
                            duration |-> duration,
                            duration_seconds |-> Missing]
                IN  /\ issued["topic"] + issued["video"] < MaxItems
                    /\ next_order(G) <= MaxItems
                    /\ \E sh \in shifts :
                          IF ~sh.ok \/ \E v \in sh.docs : v.order_index = order
                          THEN /\ videos' = (videos \ G) \cup sh.docs
                               /\ resp' = Response("create_video", 500, token, req)
                               /\ UNCHANGED <<courses, issued>>
                          ELSE /\ videos' = (videos \ G) \cup sh.docs \cup {doc}
                               /\ courses' = recompute_course_counts(courses, topics, videos',
                                                                     comments, topic.course_uuid)
                               /\ issued' = Drawn("video")
                               /\ resp' = Response("create_video", 201, token,
                                                   [req EXCEPT !.uuid_id = doc.uuid_id])

CreateVideo(Files, Urls) ==
    /\ \E token \in Tokens, topic_id \in TopicIds, video_file \in Files, video_url \in Urls,
          duration \in Durations :
          \E order_index \in Orders(next_order(VideosOf(topic_id))) :
             create_video(token, topic_id, order_index, video_file, video_url, duration)
    /\ UNCHANGED <<acctVars, device_resets, topics, comments, enrolVars, certificates, stored_files, configVars>>

\* PUT /videos/{video_id}
update_video(token, video_id, order_index, video_file) ==
    LET auth == require_admin_or_teacher(sessions, token)
        req == [uuid_id |-> video_id, order_index |-> order_index]
    IN  /\ sessions' = Canon(auth.sessions)
        /\ IF auth.status # 200
           THEN /\ resp' = Response("update_video", auth.status, token, None)
                /\ UNCHANGED videos
           ELSE IF ~\E v \in videos : v.uuid_id = video_id
           THEN /\ resp' = Response("update_video", 404, token, None)
                /\ UNCHANGED videos
           ELSE LET existing == CHOOSE v \in videos : v.uuid_id = video_id
                    G == VideosOf(existing.topic_uuid)
                    new == order_index
                    shifts ==
                        IF new = NoOrder \/ new = existing.order_index
                        THEN {[docs |-> G, ok |-> TRUE]}
                        ELSE IF new < existing.order_index
                        THEN update_many_inc(G, {v \in G : /\ v.order_index >= new
                                                           /\ v.order_index < existing.order_index}, 1)
                        ELSE update_many_inc(G, {v \in G : /\ v.order_index > existing.order_index
                                                           /\ v.order_index <= new}, 0 - 1)
                    uploaded(D) == {IF v.uuid_id = video_id /\ video_file
                                    THEN [v EXCEPT !.source_type = "upload", !.storage_key = TRUE,
                                                   !.video_url = use_s3]
                                    ELSE v : v \in D}
                IN  \E sh \in shifts :
                       LET set == IF new = NoOrder THEN sh ELSE set_order_index(sh.docs, video_id, new)
                       IN  IF ~sh.ok \/ ~set.ok
                           THEN /\ videos' = (videos \ G) \cup sh.docs
                                /\ resp' = Response("update_video", 500, token, req)
                           ELSE /\ videos' = (videos \ G) \cup uploaded(set.docs)
                                /\ resp' = Response("update_video", 200, token, req)

UpdateVideo(Files) ==
    /\ \E token \in Tokens, video_id \in VideoIds, video_file \in Files :
          \E order_index \in Orders(Cardinality({v \in videos : \E e \in videos :
                                         e.uuid_id = video_id /\ v.topic_uuid = e.topic_uuid})) :
             update_video(token, video_id, order_index, video_file)
    /\ UNCHANGED <<acctVars, device_resets, courses, topics, comments, enrolVars, certificates, stored_files, configVars,
                   issued>>

\* DELETE /videos/{video_id}
delete_video(token, video_id) ==
    LET auth == require_admin_or_teacher(sessions, token)
    IN  /\ sessions' = Canon(auth.sessions)
        /\ IF auth.status # 200
           THEN /\ resp' = Response("delete_video", auth.status, token, None)
                /\ UNCHANGED <<courses, videos, comments, user_progress>>
           ELSE IF ~\E v \in videos : v.uuid_id = video_id
           THEN /\ resp' = Response("delete_video", 404, token, None)
                /\ UNCHANGED <<courses, videos, comments, user_progress>>
           ELSE LET existing == CHOOSE v \in videos : v.uuid_id = video_id
                IN  /\ comments' = {m \in comments :
                                      ~(m.parent_type = "video" /\ m.parent_uuid = video_id)}
                    /\ user_progress' = {p \in user_progress : p.video_uuid # video_id}
                    /\ videos' = {v \in videos : v.uuid_id # video_id}
                    /\ courses' = recompute_course_counts(courses, topics, videos', comments',
                                                          existing.course_uuid)
                    /\ resp' = Response("delete_video", 204, token, video_id)

DeleteVideo ==
    /\ \E token \in Tokens, video_id \in VideoIds : delete_video(token, video_id)
    /\ UNCHANGED <<acctVars, device_resets, topics, user_courses, certificates, stored_files, configVars, issued>>

\* POST /uploads/video/topic/{topic_uuid}
upload_video_new(token, topic_uuid) ==
    LET auth == require_admin_or_teacher(sessions, token)
        req == [topic_id |-> topic_uuid, order_index |-> NoOrder, uuid_id |-> None]
    IN  /\ sessions' = Canon(auth.sessions)
        /\ IF auth.status # 200
           THEN /\ resp' = Response("upload_video_new", auth.status, token, None)
                /\ UNCHANGED <<videos, issued>>
           ELSE IF ~\E t \in topics : t.uuid_id = topic_uuid
           THEN /\ resp' = Response("upload_video_new", 404, token, None)
                /\ UNCHANGED <<videos, issued>>
           ELSE LET topic == CHOOSE t \in topics : t.uuid_id = topic_uuid
                    G == VideosOf(topic_uuid)
                    doc == [uuid_id |-> uuid4("video"),
                            course_uuid |-> topic.course_uuid,
                            topic_uuid |-> topic_uuid,
                            order_index |-> next_order(G),
                            source_type |-> "upload",
                            storage_key |-> TRUE,
                            video_url |-> use_s3,
                            duration |-> Missing,
                            duration_seconds |-> 0]
                IN  /\ issued["topic"] + issued["video"] < MaxItems
                    /\ next_order(G) <= MaxItems
                    /\ videos' = videos \cup {doc}
                    /\ issued' = Drawn("video")
                    /\ resp' = Response("upload_video_new", 200, token,
                                        [req EXCEPT !.uuid_id = doc.uuid_id])

UploadVideoNew ==
    /\ \E token \in Tokens, topic_uuid \in TopicIds : upload_video_new(token, topic_uuid)
    /\ UNCHANGED <<acctVars, device_resets, courses, topics, comments, enrolVars, certificates, stored_files, configVars>>

-----------------------------------------------------------------------------
(* Sessions and a course that exist before the explored catalog requests:    *)
(* the admin, the teacher and a student have logged in once, and the admin   *)
(* has created an empty course.                                              *)

Session(n, user, role) ==
    [session_id |-> <<"session", n>>, user_uuid |-> user.uuid_id, role |-> role,
     last_used_at |-> 1, revoked |-> FALSE]

\* str(i) of a non-negative integer, as a sequence of one-character strings.
RECURSIVE str(_)
str(i) ==
    LET digit == <<"0", "1", "2", "3", "4", "5", "6", "7", "8", "9">>[(i % 10) + 1]
    IN  IF i < 10 THEN <<digit>> ELSE str(i \div 10) \o <<digit>>

\* utils/slug.py; a title and a slug are sequences of one-character strings.
slugify(value) ==
    LET alnum == {"a", "c", "e", "i", "m", "t", "0", "1", "2", "3", "4", "5", "6", "7", "8", "9"}
        RECURSIVE strip(_, _)
        strip(v, chars) ==
            IF v # <<>> /\ Head(v) \in chars THEN strip(Tail(v), chars)
            ELSE IF v # <<>> /\ v[Len(v)] \in chars THEN strip(SubSeq(v, 1, Len(v) - 1), chars)
            ELSE v
        lower(v) == [k \in 1..Len(v) |-> IF v[k] = "A" THEN "a" ELSE v[k]]
        \* re.sub of every maximal run of characters outside keep by one hyphen
        RECURSIVE sub(_, _)
        sub(v, keep) ==
            IF v = <<>> THEN <<>>
            ELSE IF Head(v) \in keep THEN <<Head(v)>> \o sub(Tail(v), keep)
            ELSE IF Len(v) > 1 /\ v[2] \notin keep THEN sub(Tail(v), keep)
            ELSE <<"-">> \o sub(Tail(v), keep)
        hyphenated == sub(lower(strip(value, {" "})), alnum)
        collapsed == sub(hyphenated, alnum \cup {"A", " ", "!"})
        slug == strip(collapsed, {"-"})
    IN  IF slug = <<>> THEN <<"i", "t", "e", "m">> ELSE slug

\* The slug loop that keeps the first candidate whatever the collection holds.
ensure_unique_slug_first(C, base_slug, i) == base_slug

\* base_slug if no course of C has it, else base_slug-i for the least i >= 2 that is free.
RECURSIVE ensure_unique_slug(_, _, _)
ensure_unique_slug(C, base_slug, i) ==
    LET slug == IF i = 1 THEN base_slug ELSE base_slug \o <<"-">> \o str(i)
    IN  IF \E c \in C : c.slug = slug THEN ensure_unique_slug(C, base_slug, i + 1) ELSE slug

CourseDoc(n, title, slug, instructor_uuid, departments, auto_assign, thumbnail_key, intro_key) ==
    [uuid_id |-> <<"course", n>>, title |-> title, slug |-> slug,
     instructor_uuid |-> instructor_uuid, departments |-> departments,
     auto_assign |-> auto_assign, thumbnail_storage_key |-> thumbnail_key,
     intro_video_storage_key |-> intro_key,
     total_topics |-> 0, total_videos |-> 0, total_comments |-> 0]

\* A course titled "c<n>" of the first teacher, without media files.
Course(n, departments, auto_assign) ==
    CourseDoc(n, <<"c">> \o str(n), <<"c">> \o str(n), <<"teacher", 1>>, departments,
              auto_assign, None, None)

InitOrder ==
    /\ admins = {Admin1}
    /\ teachers = {Teacher1}
    /\ students = {Student1}
    /\ sessions = {Session(1, Admin1, "admin"), Session(2, Teacher1, "teacher"),
                   Session(3, Student1, "student")}
    /\ device_resets = {}
    /\ courses = {Course(1, {}, FALSE)}
    /\ topics = {}
    /\ videos = {}
    /\ comments = {}
    /\ user_courses = {}
    /\ user_progress = {}
    /\ certificates = {} /\ stored_files = {}
    /\ issued = [k \in Kinds |-> CASE k = "session" -> 3
                                   [] k \in {"student", "course"} -> 1
                                   [] OTHER -> 0]
    /\ SINGLE_SESSION = FALSE
    /\ MAX_ACTIVE_DEVICES = MaxDevices
    /\ pc = NoFrames
    /\ resp = NoResponse

NextOrder ==
    \/ CreateTopic
    \/ UpdateTopic
    \/ CreateVideo({FALSE}, {TRUE})
    \/ UpdateVideo({FALSE})
    \/ UploadVideoNew

SpecOrder == InitOrder /\ [][NextOrder]_vars

-----------------------------------------------------------------------------
(* Claims about order_index, checked under SpecOrder. *)

Refused == {401, 403, 404}

\* The documents G carry order_index exactly 1..N, N their number.
ContiguousOrders(G) == {d.order_index : d \in G} = 1..Cardinality(G)

OrderIn(D, uuid_id) == (CHOOSE d \in D : d.uuid_id = uuid_id).order_index

\* A create that found the items G of its parent and left G2, asked for place k
\* (NoOrder: none) and answered status with the new item's uuid_id.
CreateKeepsOrder(G, G2, k, status, uuid_id) ==
    (ContiguousOrders(G) /\ (k = NoOrder \/ k <= Cardinality(G))) =>
        /\ status \in {200, 201}
        /\ Cardinality(G2) = Cardinality(G) + 1
        /\ ContiguousOrders(G2)
        /\ OrderIn(G2, uuid_id) = (IF k = NoOrder THEN Cardinality(G) + 1 ELSE k)
        /\ \A a, b \in G : a.order_index < b.order_index =>
              OrderIn(G2, a.uuid_id) < OrderIn(G2, b.uuid_id)

\* C6: when the topics of a course (the videos of a topic) carry order_index
\* exactly 1..N, a create by an admin or teacher at an explicit place k in 1..N,
\* or without order_index, succeeds and leaves N+1 items carrying exactly 1..N+1,
\* the new one at k (at N+1 when none was given), the others in their old order.
C6_CreateKeepsOrderContiguous ==
    [][/\ (resp'.op = "create_topic" /\ resp'.status \notin Refused) =>
             CreateKeepsOrder(TopicsOf(resp'.out.course_id),
                              {t \in topics' : t.course_uuid = resp'.out.course_id},
                              resp'.out.order_index, resp'.status, resp'.out.uuid_id)
       /\ (resp'.op \in {"create_video", "upload_video_new"} /\ resp'.status \notin Refused) =>
             CreateKeepsOrder(VideosOf(resp'.out.topic_id),
                              {v \in videos' : v.topic_uuid = resp'.out.topic_id},
                              resp'.out.order_index, resp'.status, resp'.out.uuid_id)
      ]_vars

\* An update that found the items G around the item uuid_id and left G2, asked
\* for place q and answered status.
MoveKeepsOrder(G, G2, uuid_id, q, status) ==
    (ContiguousOrders(G) /\ q # NoOrder /\ q <= Cardinality(G) /\ q # OrderIn(G, uuid_id)) =>
        /\ status = 200
        /\ {d.uuid_id : d \in G2} = {d.uuid_id : d \in G}
        /\ ContiguousOrders(G2)
        /\ OrderIn(G2, uuid_id) = q

\* C7: when the topics of a course (the videos of a topic) carry order_index
\* exactly 1..N, an update by an admin or teacher that moves an item from place p
\* to another place q in 1..N, earlier or later, succeeds and leaves the same
\* items carrying exactly 1..N, the moved one at q.
C7_MoveKeepsOrderContiguous ==
    [][/\ (resp'.op = "update_topic" /\ resp'.status \notin Refused) =>
             LET course_id == (CHOOSE t \in topics : t.uuid_id = resp'.out.uuid_id).course_uuid
             IN  MoveKeepsOrder(TopicsOf(course_id),
                                {t \in topics' : t.course_uuid = course_id},
                                resp'.out.uuid_id, resp'.out.order_index, resp'.status)
       /\ (resp'.op = "update_video" /\ resp'.status \notin Refused) =>
             LET topic_id == (CHOOSE v \in videos : v.uuid_id = resp'.out.uuid_id).topic_uuid
             IN  MoveKeepsOrder(VideosOf(topic_id),
                                {v \in videos' : v.topic_uuid = topic_id},
                                resp'.out.uuid_id, resp'.out.order_index, resp'.status)
      ]_vars

-----------------------------------------------------------------------------
(* routes/assignments.py *)

MaxAssignments == 2   \* user_courses documents ever created

StudentIds == {u.uuid_id : u \in students} \cup {Unknown("student")}
AssignmentIds == {a.uuid_id : a \in user_courses} \cup {Unknown("assignment")}

\* The student lists of the explored AssignRequest payloads: student_uuid (one
\* element), student_uuids (any length, repeats allowed), or neither (empty).
StudentLists ==
    {<<>>} \cup {<<s>> : s \in StudentIds}
           \cup {<<s, t>> : s \in {u.uuid_id : u \in students}, t \in {u.uuid_id : u \in students}}

find_assignment_none(UC, student_uuid, course_uuid) == {}

\* find_one({"student_uuid": ..., "course_uuid": ...}): the documents it may return.
find_assignment(UC, student_uuid, course_uuid) ==
    {a \in UC : a.student_uuid = student_uuid /\ a.course_uuid = course_uuid}

\* The loop of assign_course over students[i..]: UC the collection so far, n the
\* identifiers drawn so far.  Returns the collection, n and the documents answered.
RECURSIVE assign_each(_, _, _, _, _, _, _)
assign_each(UC, n, out, list, i, course_uuid, identity) ==
    IF i > Len(list) THEN [user_courses |-> UC, drawn |-> n, out |-> out]
    ELSE LET sid == list[i]
             found == find_assignment(UC, sid, course_uuid)
         IN  IF found # {}
             THEN LET existing == CHOOSE a \in found : TRUE
                      doc == IF existing.status = "revoked"
                             THEN [existing EXCEPT !.status = "active",
                                                   !.assigned_by_role = identity.role,
                                                   !.assigned_by_uuid = identity.user_uuid]
                             ELSE existing
                  IN  assign_each((UC \ {existing}) \cup {doc}, n, out \cup {doc.uuid_id},
                                  list, i + 1, course_uuid, identity)
             ELSE LET doc == [uuid_id |-> <<"assignment", issued["assignment"] + n + 1>>,
                              student_uuid |-> sid,
                              course_uuid |-> course_uuid,
                              assigned_by_role |-> identity.role,
                              assigned_by_uuid |-> identity.user_uuid,
                              status |-> "active"]
                  IN  assign_each(UC \cup {doc}, n + 1, out \cup {doc.uuid_id},
                                  list, i + 1, course_uuid, identity)

\* POST /assignments/
assign_course(token, course_uuid, list) ==
    LET auth == require_admin_or_teacher(sessions, token)
        Range == {list[i] : i \in 1..Len(list)}
        count == Cardinality({u \in students : u.uuid_id \in Range})
        done == assign_each(user_courses, 0, {}, list, 1, course_uuid, auth.identity)
    IN  /\ sessions' = Canon(auth.sessions)
        /\ IF auth.status # 200
           THEN /\ resp' = Response("assign_course", auth.status, token, None)
                /\ UNCHANGED <<user_courses, issued>>
           ELSE IF ~\E c \in courses : c.uuid_id = course_uuid
           THEN /\ resp' = Response("assign_course", 404, token, None)
                /\ UNCHANGED <<user_courses, issued>>
           ELSE IF list = <<>> \/ count # Len(list)
           THEN /\ resp' = Response("assign_course", 400, token, None)
                /\ UNCHANGED <<user_courses, issued>>
           ELSE /\ issued["assignment"] + done.drawn <= MaxAssignments
                /\ user_courses' = done.user_courses
                /\ issued' = [issued EXCEPT !["assignment"] = @ + done.drawn]
                /\ resp' = Response("assign_course", 201, token,
                                    [course_uuid |-> course_uuid, students |-> Range,
                                     assignments |-> done.out])

AssignCourse ==
    /\ \E token \in Tokens, course_uuid \in CourseIds, list \in StudentLists :
          assign_course(token, course_uuid, list)
    /\ UNCHANGED <<acctVars, device_resets, catalogVars, user_progress, certificates, stored_files, configVars>>

\* GET /assignments/me
my_assignments(token) ==
    LET auth == get_current_identity(sessions, token)
    IN  /\ sessions' = Canon(auth.sessions)
        /\ IF auth.status # 200
           THEN resp' = Response("my_assignments", auth.status, token, None)
           ELSE IF auth.identity.role # "student"
           THEN resp' = Response("my_assignments", 403, token, None)
           ELSE resp' = Response("my_assignments", 200, token,
                                 {a.uuid_id : a \in {x \in user_courses :
                                     /\ x.student_uuid = auth.identity.user_uuid
                                     /\ x.status = "active"}})

MyAssignments ==
    /\ \E token \in Tokens : my_assignments(token)
    /\ UNCHANGED <<acctVars, device_resets, catalogVars, enrolVars, certificates, stored_files, configVars, issued>>

\* DELETE /assignments/{assignment_id}
revoke_assignment(token, assignment_id) ==
    LET auth == require_admin_or_teacher(sessions, token)
    IN  /\ sessions' = Canon(auth.sessions)
        /\ IF auth.status # 200
           THEN /\ resp' = Response("revoke_assignment", auth.status, token, None)
                /\ UNCHANGED user_courses
           ELSE IF ~\E a \in user_courses : a.uuid_id = assignment_id
           THEN /\ resp' = Response("revoke_assignment", 404, token, None)
                /\ UNCHANGED user_courses
           ELSE /\ user_courses' = {IF a.uuid_id = assignment_id
                                    THEN [a EXCEPT !.status = "revoked"] ELSE a
                                    : a \in user_courses}
                /\ resp' = Response("revoke_assignment", 204, token, assignment_id)

RevokeAssignment ==
    /\ \E token \in Tokens, assignment_id \in AssignmentIds :
          revoke_assignment(token, assignment_id)
    /\ UNCHANGED <<acctVars, device_resets, catalogVars, user_progress, certificates, stored_files, configVars, issued>>

-----------------------------------------------------------------------------
(* routes/media.py *)

has_active_assignment_any_status(student_uuid, course_uuid) ==
    \E a \in user_courses : a.student_uuid = student_uuid /\ a.course_uuid = course_uuid

\* find_one({"student_uuid": ..., "course_uuid": ..., "status": "active"})
has_active_assignment(student_uuid, course_uuid) ==
    \E a \in user_courses : /\ a.student_uuid = student_uuid
                            /\ a.course_uuid = course_uuid
                            /\ a.status = "active"

\* GET /media/video/{video_uuid}
get_video(token, video_uuid) ==
    LET auth == get_current_identity(sessions, token)
    IN  /\ sessions' = Canon(auth.sessions)
        /\ IF auth.status # 200
           THEN resp' = Response("get_video", auth.status, token, None)
           ELSE IF ~\E v \in videos : v.uuid_id = video_uuid
           THEN resp' = Response("get_video", 404, token, None)
           ELSE LET video == CHOOSE v \in videos : v.uuid_id = video_uuid
                IN  IF /\ auth.identity.role = "student"
                       /\ ~has_active_assignment(auth.identity.user_uuid, video.course_uuid)
                    THEN resp' = Response("get_video", 403, token, video_uuid)
                    ELSE IF video.source_type = "upload" /\ video.storage_key
                    THEN resp' = Response("get_video", 200, token, video_uuid)
                    ELSE IF video.video_url
                    THEN resp' = Response("get_video", 200, token, video_uuid)
                    ELSE resp' = Response("get_video", 400, token, video_uuid)

GetVideo ==
    /\ \E token \in Tokens, video_uuid \in VideoIds : get_video(token, video_uuid)
    /\ UNCHANGED <<acctVars, device_resets, catalogVars, enrolVars, certificates, stored_files, configVars, issued>>

\* GET /media/file/{video_uuid}; isfile: whether the stored file is on disk.
stream_uploaded_video(token, video_uuid, isfile) ==
    LET auth == get_current_identity(sessions, token)
    IN  /\ sessions' = Canon(auth.sessions)
        /\ IF auth.status # 200
           THEN resp' = Response("stream_uploaded_video", auth.status, token, None)
           ELSE IF ~\E v \in videos : v.uuid_id = video_uuid
           THEN resp' = Response("stream_uploaded_video", 404, token, None)
           ELSE LET video == CHOOSE v \in videos : v.uuid_id = video_uuid
                IN  IF /\ auth.identity.role = "student"
                       /\ ~has_active_assignment(auth.identity.user_uuid, video.course_uuid)
                    THEN resp' = Response("stream_uploaded_video", 403, token, video_uuid)
                    ELSE IF ~video.storage_key
                    THEN resp' = Response("stream_uploaded_video", 400, token, video_uuid)
                    ELSE IF ~isfile
                    THEN resp' = Response("stream_uploaded_video", 404, token, video_uuid)
                    ELSE resp' = Response("stream_uploaded_video", 200, token, video_uuid)

StreamUploadedVideo ==
    /\ \E token \in Tokens, video_uuid \in VideoIds, isfile \in BOOLEAN :
          stream_uploaded_video(token, video_uuid, isfile)
    /\ UNCHANGED <<acctVars, device_resets, catalogVars, enrolVars, certificates, stored_files, configVars, issued>>

-----------------------------------------------------------------------------
(* The states the role and media requests start from: some accounts are       *)
(* logged in and a course holds a topic with an uploaded video and an         *)
(* external video.                                                            *)

Topic(n, course_n, order_index) ==
    [uuid_id |-> <<"topic", n>>, course_uuid |-> <<"course", course_n>>,
     order_index |-> order_index]

Video(n, course_n, topic_n, order_index, video_file, video_url) ==
    [uuid_id |-> <<"video", n>>, course_uuid |-> <<"course", course_n>>,
     topic_uuid |-> <<"topic", topic_n>>, order_index |-> order_index,
     source_type |-> IF video_file THEN "upload" ELSE "url",
     storage_key |-> video_file,
     video_url |-> IF video_file THEN use_s3 ELSE video_url,
     duration |-> 60, duration_seconds |-> Missing]

InitCatalog ==
    /\ topics = {Topic(1, 1, 1)}
    /\ videos = {Video(1, 1, 1, 1, TRUE, FALSE), Video(2, 1, 1, 2, FALSE, TRUE)}
    /\ comments = {}
    /\ user_courses = {}
    /\ user_progress = {}
    /\ certificates = {} /\ stored_files = {}
    /\ device_resets = {}
    /\ SINGLE_SESSION = FALSE
    /\ MAX_ACTIVE_DEVICES = MaxDevices
    /\ pc = NoFrames
    /\ resp = NoResponse

\* The admin and two students are logged in, the first student on two devices.
InitRoles ==
    /\ InitCatalog
    /\ admins = {Admin1}
    /\ teachers = {Teacher1}
    /\ students = {Student1, Student2}
    /\ sessions = {Session(1, Admin1, "admin"),
                   Session(2, Student1, "student"),
                   [Session(3, Student1, "student") EXCEPT !.last_used_at = 2],
                   Session(4, Student2, "student")}
    /\ courses = {[Course(1, {}, FALSE) EXCEPT !.total_topics = 1, !.total_videos = 2]}
    /\ issued = [k \in Kinds |-> CASE k = "session" -> 4
                                   [] k \in {"student", "video"} -> 2
                                   [] k \in {"course", "topic"} -> 1
                                   [] OTHER -> 0]

NextRoles ==
    \/ CreateTopic
    \/ AssignCourse
    \/ RevokeAssignment
    \/ MyAssignments

SpecRoles == InitRoles /\ [][NextRoles]_vars

\* The admin, the teacher and one student are logged in; a second course is empty.
InitMedia ==
    /\ InitCatalog
    /\ courses = {[Course(1, {}, FALSE) EXCEPT !.total_topics = 1, !.total_videos = 2],
                  Course(2, {}, FALSE)}
    /\ admins = {Admin1}
    /\ teachers = {Teacher1}
    /\ students = {Student1}
    /\ sessions = {Session(1, Admin1, "admin"), Session(2, Teacher1, "teacher"),
                   Session(3, Student1, "student")}
    /\ issued = [k \in Kinds |-> CASE k = "session" -> 3
                                   [] k \in {"course", "video"} -> 2
                                   [] k \in {"student", "topic"} -> 1
                                   [] OTHER -> 0]

NextMedia ==
    \/ AssignCourse
    \/ RevokeAssignment
    \/ GetVideo
    \/ StreamUploadedVideo

SpecMedia == InitMedia /\ [][NextMedia]_vars

-----------------------------------------------------------------------------
(* Claims about roles, checked under SpecRoles. *)

AdminOrTeacherOps == {"create_topic", "assign_course", "revoke_assignment"}

\* The request answered by resp' was sent with the token of an active session
\* whose role is neither admin nor teacher.
CallerIsStudent ==
    /\ is_session_active(sessions, resp'.token)
    /\ SessionOf(sessions, resp'.token).role \notin {"admin", "teacher"}

\* Every session keeps its identity, user, role and revoked flag; the sessions
\* of users other than the caller are untouched; the caller's other sessions
\* keep their order of last use.
OnlyCallerTouched ==
    LET caller == SessionOf(sessions, resp'.token)
    IN  /\ {s.session_id : s \in sessions'} = {s.session_id : s \in sessions}
        /\ \A s \in sessions :
              LET t == SessionOf(sessions', s.session_id)
              IN  /\ [t EXCEPT !.last_used_at = 0] = [s EXCEPT !.last_used_at = 0]
                  /\ s.user_uuid # caller.user_uuid => t = s
        /\ \A a, b \in {s \in sessions : /\ s.user_uuid = caller.user_uuid
                                          /\ s.session_id # caller.session_id} :
              a.last_used_at < b.last_used_at =>
                 SessionOf(sessions', a.session_id).last_used_at
                    < SessionOf(sessions', b.session_id).last_used_at

MyAssignmentsExact ==
    (resp'.op = "my_assignments" /\ CallerIsStudent) =>
        /\ resp'.status = 200
        /\ resp'.out = {a.uuid_id : a \in {x \in user_courses :
                           /\ x.student_uuid = SessionOf(sessions, resp'.token).user_uuid
                           /\ x.status = "active"}}
        /\ UNCHANGED user_courses

\* C2 as stated: a request for an admin-or-teacher-only operation (create a
\* topic, assign, revoke an assignment) by a caller who is neither is answered
\* 403 and changes no stored state at all; GET /assignments/me by a student
\* answers 200 with exactly the caller's active assignments.
C2_RejectedChangesNothing ==
    [][/\ (resp'.op \in AdminOrTeacherOps /\ CallerIsStudent) =>
             /\ resp'.status = 403
             /\ UNCHANGED <<acctVars, sessions, device_resets, catalogVars, enrolVars,
                            certificates, stored_files, configVars, issued>>
       /\ MyAssignmentsExact
      ]_vars

\* C2, amended: the rejected request changes no stored state other than the
\* last_used_at of the caller's own session, which the identity check refreshes
\* before the role is examined; GET /assignments/me by a student answers 200
\* with exactly the caller's active assignments.
C2_RejectedTouchesOnlyCaller ==
    [][/\ (resp'.op \in AdminOrTeacherOps /\ CallerIsStudent) =>
             /\ resp'.status = 403
             /\ OnlyCallerTouched
             /\ UNCHANGED <<acctVars, device_resets, catalogVars, enrolVars, certificates, stored_files, configVars,
                            issued>>
       /\ MyAssignmentsExact
      ]_vars

\* A student who holds two active sessions and an assignment was refused the
\* creation of a topic.
C2_Witness ==
    /\ resp.op = "create_topic" /\ resp.status = 403
    /\ SessionOf(sessions, resp.token).role = "student"
    /\ Cardinality(ActiveIds(sessions, SessionOf(sessions, resp.token).user_uuid)) = 2
    /\ \E a \in user_courses : a.student_uuid = SessionOf(sessions, resp.token).user_uuid

-----------------------------------------------------------------------------
(* Claims about media access, checked under SpecMedia. *)

\* C3: for an existing video, a student's request for the playback descriptor or
\* the file stream is answered 403 exactly when the student holds no active
\* assignment to the video's course, so a revoked assignment refuses both until
\* it is active again; an admin or teacher is never answered 403.
C3_StudentsNeedActiveAssignment ==
    (/\ resp.op \in {"get_video", "stream_uploaded_video"}
     /\ resp.status # 401
     /\ resp.out # None) =>
        LET caller == SessionOf(sessions, resp.token)
            video == CHOOSE v \in videos : v.uuid_id = resp.out
            assigned == \E a \in user_courses : /\ a.student_uuid = caller.user_uuid
                                                /\ a.course_uuid = video.course_uuid
                                                /\ a.status = "active"
        IN  IF caller.role = "student"
            THEN (resp.status = 403) <=> ~assigned
            ELSE resp.status # 403

\* A student whose assignment to the video's course was revoked, and who holds an
\* active assignment to another course, was refused the file stream.
C3_Witness ==
    /\ resp.op = "stream_uploaded_video" /\ resp.status = 403
    /\ LET caller == SessionOf(sessions, resp.token)
           video == CHOOSE v \in videos : v.uuid_id = resp.out
       IN  /\ \E a \in user_courses : /\ a.student_uuid = caller.user_uuid
                                      /\ a.course_uuid = video.course_uuid
                                      /\ a.status = "revoked"
           /\ \E a \in user_courses : /\ a.student_uuid = caller.user_uuid
                                      /\ a.course_uuid # video.course_uuid
                                      /\ a.status = "active"

-----------------------------------------------------------------------------
(* utils/auto_assign.py, routes/student.py, routes/courses.py *)

MaxEnrolled == 4      \* students, courses and assignments ever created, together
MaxFiles == 2          \* media files ever stored by course requests

Departments == {"CS", "EE"}
AutoAssign == <<"auto-assign", 0>>     \* assigned_by_uuid of the engine's documents

\* The document the auto-assign engines insert.
assignment_doc(n, student_uuid, course_uuid) ==
    [uuid_id |-> <<"assignment", n>>, student_uuid |-> student_uuid,
     course_uuid |-> course_uuid, assigned_by_role |-> "system",
     assigned_by_uuid |-> AutoAssign, status |-> "active"]

\* The loop body shared by both engines, over the pairs P of <<student, course>>
\* in find() order (the order of creation): a pair without a document gets a
\* new one, a revoked document is re-activated, an active one is left alone.
\* Returns the collection, the pairs assigned and the number of documents made.
auto_assign_pairs(UC, P) ==
    LET fresh == {p \in P : find_assignment(UC, p[1], p[2]) = {}}
        again == {p \in P : \E a \in find_assignment(UC, p[1], p[2]) : a.status = "revoked"}
        place(p) == Cardinality({q \in fresh : \/ q[1][2] < p[1][2]
                                               \/ q[1][2] = p[1][2] /\ q[2][2] <= p[2][2]})
    IN  [user_courses |->
            {IF <<a.student_uuid, a.course_uuid>> \in again
             THEN [a EXCEPT !.status = "active", !.assigned_by_role = "system",
                            !.assigned_by_uuid = AutoAssign]
             ELSE a : a \in UC}
            \cup {assignment_doc(issued["assignment"] + place(p), p[1], p[2]) : p \in fresh},
         assigned |-> fresh \cup again,
         drawn |-> Cardinality(fresh)]

auto_assign_courses_to_student_again(UC, C, student_uuid, department) ==
    LET matching == {c.uuid_id : c \in {x \in C : department \in x.departments /\ x.auto_assign}}
        done == auto_assign_pairs(UC, {<<student_uuid, c>> : c \in matching})
    IN  [done EXCEPT !.assigned = matching]

\* The engine that matches every auto-assign course, whatever its departments.
auto_assign_courses_to_student_any_department(UC, C, student_uuid, department) ==
    LET matching == {c.uuid_id : c \in {x \in C : x.auto_assign}}
        done == auto_assign_pairs(UC, {<<student_uuid, c>> : c \in matching})
    IN  [done EXCEPT !.assigned = {p[2] : p \in done.assigned}]

\* auto_assign_courses_to_student(student_uuid, department) over the courses C
auto_assign_courses_to_student(UC, C, student_uuid, department) ==
    LET matching == {c.uuid_id : c \in {x \in C : department \in x.departments /\ x.auto_assign}}
        done == auto_assign_pairs(UC, {<<student_uuid, c>> : c \in matching})
    IN  [done EXCEPT !.assigned = {p[2] : p \in done.assigned}]

\* auto_assign_existing_students_to_course(course_uuid, departments)
auto_assign_existing_students_to_course(UC, course_uuid, departments) ==
    LET matching == {u.uuid_id : u \in {x \in students : x.department \in departments}}
        done == auto_assign_pairs(UC, {<<s, course_uuid>> : s \in matching})
    IN  [done EXCEPT !.assigned = Cardinality(done.assigned)]

\* The engine run for a student and the student's department.
AutoAssignCoursesToStudent ==
    /\ \E u \in students :
          LET department == u.department
              done == auto_assign_courses_to_student(user_courses, courses, u.uuid_id, department)
          IN  /\ issued["assignment"] + done.drawn <= MaxAssignments
              /\ user_courses' = done.user_courses
              /\ issued' = [issued EXCEPT !["assignment"] = @ + done.drawn]
              /\ resp' = Response("auto_assign_courses_to_student", 0, NoToken,
                                  [student_uuid |-> u.uuid_id, department |-> department,
                                   assigned |-> done.assigned])
    /\ UNCHANGED <<acctVars, sessions, device_resets, catalogVars, user_progress, certificates, stored_files, configVars>>

\* POST /students/ ; an empty department stands for a request without one.
create_student(department, email_id, admin_uuid_id) ==
    LET uuid_id == uuid4("student")
        done == auto_assign_courses_to_student(user_courses, courses, uuid_id, department)
    IN  IF \/ department = ""
           \/ ~\E a \in admins : a.uuid_id = admin_uuid_id
           \/ \E u \in students : u.email_id = email_id
        THEN /\ resp' = Response("create_student", 400, NoToken, None)
             /\ UNCHANGED <<students, user_courses, issued>>
        ELSE /\ issued["student"] + issued["course"] + issued["assignment"] + 1 + done.drawn
                   <= MaxEnrolled
             /\ issued["assignment"] + done.drawn <= MaxAssignments
             /\ students' = students \cup {[uuid_id |-> uuid_id, email_id |-> email_id,
                                            department |-> department]}
             /\ user_courses' = done.user_courses
             /\ issued' = [issued EXCEPT !["student"] = @ + 1,
                                         !["assignment"] = @ + done.drawn]
             /\ resp' = Response("create_student", 201, NoToken,
                                 [uuid_id |-> uuid_id, department |-> department])

\* The first of the two explored addresses that no student has registered.
NewEmail == IF \E u \in students : u.email_id = "s1@x" THEN "s2@x" ELSE "s1@x"

CreateStudent ==
    /\ \E department \in Departments \cup {""},
          email_id \in {u.email_id : u \in students} \cup {NewEmail},
          admin_uuid_id \in {a.uuid_id : a \in admins} \cup {Unknown("admin")} :
          create_student(department, email_id, admin_uuid_id)
    /\ UNCHANGED <<admins, teachers, sessions, device_resets, catalogVars, user_progress,
                   certificates, stored_files, configVars>>

\* storage.upload_file / upload_image: the key under which the k-th file of the request is stored.
upload_file(k) == <<"file", issued["file"] + k>>

\* POST /courses/; thumbnail and intro_video are optional uploads, given by the
\* major type of their content type.
create_course(token, title, instructor_uuid, departments, auto_assign, thumbnail, intro_video) ==
    LET auth == require_admin_or_teacher(sessions, token)
        course_uuid == uuid4("course")
        thumbnail_storage_key == IF thumbnail = <<>> THEN None ELSE upload_file(1)
        intro_video_storage_key ==
            IF intro_video = <<>> THEN None ELSE upload_file(Len(thumbnail) + 1)
        slug == ensure_unique_slug(courses, slugify(title), 1)
        done == IF auto_assign /\ departments # {}
                THEN auto_assign_existing_students_to_course(user_courses, course_uuid, departments)
                ELSE [user_courses |-> user_courses, assigned |-> 0, drawn |-> 0]
    IN  /\ sessions' = Canon(auth.sessions)
        /\ IF auth.status # 200
           THEN /\ resp' = Response("create_course", auth.status, token, None)
                /\ UNCHANGED <<courses, user_courses, stored_files, issued>>
           ELSE IF ~\E t \in teachers : t.uuid_id = instructor_uuid
           THEN /\ resp' = Response("create_course", 400, token, None)
                /\ UNCHANGED <<courses, user_courses, stored_files, issued>>
           ELSE IF thumbnail # <<>> /\ thumbnail[1] # "image"
           THEN /\ resp' = Response("create_course", 400, token, None)
                /\ UNCHANGED <<courses, user_courses, stored_files, issued>>
           ELSE IF intro_video # <<>> /\ intro_video[1] # "video"
           THEN /\ issued["file"] + Len(thumbnail) <= MaxFiles
                /\ stored_files' = stored_files \cup ({thumbnail_storage_key} \ {None})
                /\ issued' = [issued EXCEPT !["file"] = @ + Len(thumbnail)]
                /\ resp' = Response("create_course", 400, token, None)
                /\ UNCHANGED <<courses, user_courses>>
           ELSE /\ issued["student"] + issued["course"] + issued["assignment"] + 1 + done.drawn
                   <= MaxEnrolled
                /\ issued["assignment"] + done.drawn <= MaxAssignments
                /\ issued["file"] + Len(thumbnail) + Len(intro_video) <= MaxFiles
                /\ stored_files' = stored_files \cup
                       ({thumbnail_storage_key, intro_video_storage_key} \ {None})
                /\ courses' = courses \cup
                       {CourseDoc(course_uuid[2], title, slug, instructor_uuid, departments,
                                  auto_assign, thumbnail_storage_key, intro_video_storage_key)}
                /\ user_courses' = done.user_courses
                /\ issued' = [issued EXCEPT !["course"] = @ + 1,
                                            !["assignment"] = @ + done.drawn,
                                            !["file"] = @ + Len(thumbnail) + Len(intro_video)]
                /\ resp' = Response("create_course", 201, token, course_uuid)

\* PUT /courses/{course_id}; title and instructor_uuid are the optional fields
\* of the CourseUpdate payload, thumbnail and intro_video optional uploads.
update_course(token, course_id, title, instructor_uuid, thumbnail, intro_video) ==
    LET auth == require_admin_or_teacher(sessions, token)
        found == {c \in courses : c.uuid_id = course_id}
        existing == CHOOSE c \in found : TRUE
        thumbnail_storage_key ==
            IF thumbnail = <<>> THEN existing.thumbnail_storage_key ELSE upload_file(1)
        with_thumbnail ==
            IF thumbnail = <<>> THEN stored_files
            ELSE (stored_files \ {existing.thumbnail_storage_key}) \cup {thumbnail_storage_key}
        intro_video_storage_key ==
            IF intro_video = <<>> THEN existing.intro_video_storage_key
            ELSE upload_file(Len(thumbnail) + 1)
        with_intro_video ==
            IF intro_video = <<>> THEN with_thumbnail
            ELSE (with_thumbnail \ {existing.intro_video_storage_key})
                     \cup {intro_video_storage_key}
        new_slug ==
            IF title = <<>> \/ slugify(title[1]) = existing.slug THEN existing.slug
            ELSE ensure_unique_slug(courses \ found, slugify(title[1]), 1)
        updated == [existing EXCEPT
                       !.title = IF title = <<>> THEN @ ELSE title[1],
                       !.slug = new_slug,
                       !.instructor_uuid = IF instructor_uuid = <<>> THEN @ ELSE instructor_uuid[1],
                       !.thumbnail_storage_key = thumbnail_storage_key,
                       !.intro_video_storage_key = intro_video_storage_key]
    IN  /\ sessions' = Canon(auth.sessions)
        /\ IF auth.status # 200
           THEN /\ resp' = Response("update_course", auth.status, token, None)
                /\ UNCHANGED <<courses, stored_files, issued>>
           ELSE IF found = {}
           THEN /\ resp' = Response("update_course", 404, token, None)
                /\ UNCHANGED <<courses, stored_files, issued>>
           ELSE IF thumbnail # <<>> /\ thumbnail[1] # "image"
           THEN /\ resp' = Response("update_course", 400, token, None)
                /\ UNCHANGED <<courses, stored_files, issued>>
           ELSE IF intro_video # <<>> /\ intro_video[1] # "video"
           THEN /\ issued["file"] + Len(thumbnail) <= MaxFiles
                /\ stored_files' = with_thumbnail
                /\ issued' = [issued EXCEPT !["file"] = @ + Len(thumbnail)]
                /\ resp' = Response("update_course", 400, token, None)
                /\ UNCHANGED courses
           ELSE /\ issued["file"] + Len(thumbnail) + Len(intro_video) <= MaxFiles
                /\ stored_files' = with_intro_video
                /\ issued' = [issued EXCEPT !["file"] = @ + Len(thumbnail) + Len(intro_video)]
                /\ IF instructor_uuid # <<>>
                      /\ ~\E t \in teachers : t.uuid_id = instructor_uuid[1]
                   THEN /\ resp' = Response("update_course", 400, token, None)
                        /\ UNCHANGED courses
                   ELSE /\ courses' = (courses \ found) \cup {updated}
                        /\ resp' = Response("update_course", 200, token, course_id)

\* The departments and auto_assign of the explored CourseCreate payloads.
CourseCreates == {<<{}, TRUE>>, <<{"EE"}, FALSE>>, <<{"EE"}, TRUE>>}

CreateCourse ==
    /\ \E token \in Tokens, course \in CourseCreates,
          instructor_uuid \in {t.uuid_id : t \in teachers} \cup {Unknown("teacher")} :
          create_course(token, <<"a">>, instructor_uuid, course[1], course[2], <<>>, <<>>)
    /\ UNCHANGED <<acctVars, device_resets, topics, videos, comments, user_progress, certificates,
                   configVars>>

\* The admin is logged in; a course for the CS department is auto-assigned.
InitAssign ==
    /\ admins = {Admin1}
    /\ teachers = {Teacher1}
    /\ students = {}
    /\ sessions = {Session(1, Admin1, "admin")}
    /\ device_resets = {}
    /\ courses = {Course(1, {"CS"}, TRUE)}
    /\ topics = {}
    /\ videos = {}
    /\ comments = {}
    /\ user_courses = {}
    /\ user_progress = {}
    /\ certificates = {} /\ stored_files = {}
    /\ issued = [k \in Kinds |-> CASE k \in {"session", "course"} -> 1 [] OTHER -> 0]
    /\ SINGLE_SESSION = FALSE
    /\ MAX_ACTIVE_DEVICES = MaxDevices
    /\ pc = NoFrames
    /\ resp = NoResponse

NextAssign ==
    \/ CreateStudent
    \/ CreateCourse
    \/ AssignCourse
    \/ RevokeAssignment
    \/ AutoAssignCoursesToStudent

SpecAssign == InitAssign /\ [][NextAssign]_vars

-----------------------------------------------------------------------------
(* Claims about assignments, checked under SpecAssign. *)

AssignmentsOf(student_uuid, course_uuid) ==
    {a \in user_courses : a.student_uuid = student_uuid /\ a.course_uuid = course_uuid}

ExactlyOneActive(student_uuid, course_uuid) ==
    /\ Cardinality(AssignmentsOf(student_uuid, course_uuid)) = 1
    /\ \A a \in AssignmentsOf(student_uuid, course_uuid) : a.status = "active"

\* C8: after any sequence of assign, revoke and auto-assignment operations,
\* user_courses holds at most one document per (student_uuid, course_uuid) pair;
\* and after a successful assign, which includes the second assign of
\* assign-revoke-assign, every pair it named has exactly one document, with
\* status active, and that document is the one the response carries.
C8_OneDocumentPerPair ==
    /\ \A a, b \in user_courses :
          (a.student_uuid = b.student_uuid /\ a.course_uuid = b.course_uuid) => a = b
    /\ (resp.op = "assign_course" /\ resp.status = 201) =>
          /\ \A s \in resp.out.students : ExactlyOneActive(s, resp.out.course_uuid)
          /\ resp.out.assignments =
                {a.uuid_id : a \in {x \in user_courses : /\ x.course_uuid = resp.out.course_uuid
                                                         /\ x.student_uuid \in resp.out.students}}

\* An admin's assign has just answered for a CS student and the course that was
\* auto-assigned when the student was created: the engine's document was revoked
\* in between and is active again, now assigned by the admin.
C8_Witness ==
    /\ resp.op = "assign_course" /\ resp.status = 201
    /\ \E u \in students, a \in user_courses :
          /\ u.department = "CS"
          /\ a.student_uuid = u.uuid_id
          /\ a.course_uuid = <<"course", 1>>
          /\ a.uuid_id \in resp.out.assignments
          /\ a.assigned_by_role = "admin"
          /\ a.status = "active"

\* The courses the engine matches for a department.
AutoAssigned(department) ==
    {c.uuid_id : c \in {x \in courses : x.auto_assign /\ department \in x.departments}}

\* The engine changes nothing when run for a student and department.
NothingToAssign(student_uuid, department) ==
    LET again == auto_assign_courses_to_student(user_courses, courses, student_uuid, department)
    IN  /\ again.user_courses = user_courses
        /\ again.assigned = {}
        /\ again.drawn = 0

\* C9: right after a student is created, every auto-assign course matching the
\* student's department has exactly one assignment for the student, active; and
\* right after the engine has run for a student and department (in create_student
\* or on its own), running it again for the same student and department changes
\* no assignment document and returns an empty list.
C9_AutoAssignIdempotent ==
    /\ (resp.op = "create_student" /\ resp.status = 201) =>
          /\ \A c \in AutoAssigned(resp.out.department) :
                ExactlyOneActive(resp.out.uuid_id, c)
          /\ NothingToAssign(resp.out.uuid_id, resp.out.department)
    /\ resp.op = "auto_assign_courses_to_student" =>
          /\ \A c \in AutoAssigned(resp.out.department) :
                ExactlyOneActive(resp.out.student_uuid, c)
          /\ NothingToAssign(resp.out.student_uuid, resp.out.department)

\* The engine has run again for a student whose department matches an
\* auto-assign course, found the active assignment and returned an empty list.
C9_Witness ==
    /\ resp.op = "auto_assign_courses_to_student"
    /\ resp.out.assigned = {}
    /\ AutoAssigned(resp.out.department) # {}
    /\ \A c \in AutoAssigned(resp.out.department) :
          \E a \in AssignmentsOf(resp.out.student_uuid, c) :
             a.status = "active" /\ a.assigned_by_role = "system"

-----------------------------------------------------------------------------
(* routes/comments.py, utils/progress.py, routes/progress.py, routes/courses.py *)

MaxComments == 2      \* comments ever created

\* POST /comments/
create_comment(token, parent_type, parent_uuid) ==
    LET auth == get_current_identity(sessions, token)
        parents == IF parent_type = "topic" THEN {t \in topics : t.uuid_id = parent_uuid}
                   ELSE {v \in videos : v.uuid_id = parent_uuid}
    IN  /\ sessions' = Canon(auth.sessions)
        /\ IF auth.status # 200
           THEN /\ resp' = Response("create_comment", auth.status, token, None)
                /\ UNCHANGED <<courses, comments, issued>>
           ELSE IF parents = {}
           THEN /\ resp' = Response("create_comment", 404, token, None)
                /\ UNCHANGED <<courses, comments, issued>>
           ELSE LET course_uuid == (CHOOSE p \in parents : TRUE).course_uuid
                    doc == [uuid_id |-> uuid4("comment"), parent_type |-> parent_type,
                            parent_uuid |-> parent_uuid, course_uuid |-> course_uuid,
                            author_role |-> auth.identity.role,
                            author_uuid |-> auth.identity.user_uuid, status |-> "visible"]
                IN  /\ issued["comment"] < MaxComments
                    /\ comments' = comments \cup {doc}
                    /\ courses' = recompute_course_counts(courses, topics, videos, comments',
                                                          course_uuid)
                    /\ issued' = Drawn("comment")
                    /\ resp' = Response("create_comment", 201, token, doc.uuid_id)

CreateComment ==
    /\ \E token \in Tokens, parent_type \in {"topic", "video"},
          parent_uuid \in TopicIds \cup VideoIds :
          create_comment(token, parent_type, parent_uuid)
    /\ UNCHANGED <<acctVars, device_resets, topics, videos, enrolVars, certificates, stored_files, configVars>>

\* int(duration * COMPLETION_THRESHOLD), the threshold being 0.95
completion_position(duration) == (duration * 95) \div 100

\* clamp_progress: <<seconds_watched, last_position_sec, completed>>
clamp_progress(seconds_watched, last_position_sec, duration) ==
    IF duration <= 0 THEN <<0, 0, TRUE>>
    ELSE LET sw == MaxOf({0, Min(seconds_watched, duration)})
             lp == MaxOf({0, Min(last_position_sec, duration)})
         IN  <<sw, lp, lp >= completion_position(duration) \/ sw >= duration>>

\* upsert_video_progress; mark_completed is <<>> when the payload has no
\* "completed", else <<its value>>.  Returns the user_progress collection.
upsert_video_progress(student_uuid, video_uuid, last_position_sec, delta_seconds, mark_completed) ==
    LET video == CHOOSE v \in videos : v.uuid_id = video_uuid
        duration == IF video.duration_seconds = Missing THEN 0 ELSE video.duration_seconds
        found == {p \in user_progress : p.student_uuid = student_uuid /\ p.video_uuid = video_uuid}
        first == IF found = {}
                 THEN <<Min(delta_seconds, duration), Min(last_position_sec, duration)>>
                 ELSE <<(CHOOSE p \in found : TRUE).seconds_watched + delta_seconds,
                        last_position_sec>>
        clamped == clamp_progress(first[1], first[2], duration)
        doc == [student_uuid |-> student_uuid, course_uuid |-> video.course_uuid,
                topic_uuid |-> video.topic_uuid, video_uuid |-> video_uuid,
                seconds_watched |-> clamped[1], last_position_sec |-> clamped[2],
                completed |-> IF mark_completed # <<>> THEN mark_completed[1] ELSE clamped[3]]
    IN  (user_progress \ found) \cup {doc}

\* The check without its test for a course that has no videos.
all_videos_completed_or_none(UP, student_uuid, course_uuid) ==
    LET total == Cardinality({v \in videos : v.course_uuid = course_uuid})
        completed == Cardinality({p \in UP : /\ p.student_uuid = student_uuid
                                              /\ p.course_uuid = course_uuid
                                              /\ p.completed})
    IN  completed >= total

\* _all_videos_completed over the progress rows UP: its first component.
all_videos_completed(UP, student_uuid, course_uuid) ==
    LET total == Cardinality({v \in videos : v.course_uuid = course_uuid})
        completed == Cardinality({p \in UP : /\ p.student_uuid = student_uuid
                                              /\ p.course_uuid = course_uuid
                                              /\ p.completed})
    IN  total # 0 /\ completed >= total

\* find_one({"student_uuid": ..., "course_uuid": ...}) on certificates
find_certificate(CT, student_uuid, course_uuid) ==
    {c \in CT : c.student_uuid = student_uuid /\ c.course_uuid = course_uuid}

\* The certificate document both issuing paths insert: certificate_id and code
\* come from two uuid4() draws.
certificate_doc(student_uuid, course_uuid, notes) ==
    [certificate_id |-> uuid4("certificate"), code |-> <<"code", issued["certificate"] + 1>>,
     student_uuid |-> student_uuid, course_uuid |-> course_uuid,
     revoked |-> FALSE, notes |-> notes]

auto_generate_certificate_again(CT, UP, student_uuid, course_uuid) ==
    LET doc == certificate_doc(student_uuid, course_uuid, "auto")
    IN  IF ~all_videos_completed(UP, student_uuid, course_uuid)
        THEN [certificates |-> CT, cert |-> {}, drawn |-> 0]
        ELSE [certificates |-> CT \cup {doc}, cert |-> {doc}, drawn |-> 1]

\* _auto_generate_certificate: the collection, the certificate returned (none:
\* the empty set) and the number of certificates made.
auto_generate_certificate(CT, UP, student_uuid, course_uuid) ==
    LET existing == find_certificate(CT, student_uuid, course_uuid)
        doc == certificate_doc(student_uuid, course_uuid, "auto")
    IN  IF existing # {}
        THEN [certificates |-> CT, cert |-> {CHOOSE c \in existing : TRUE}, drawn |-> 0]
        ELSE IF ~all_videos_completed(UP, student_uuid, course_uuid)
        THEN [certificates |-> CT, cert |-> {}, drawn |-> 0]
        ELSE [certificates |-> CT \cup {doc}, cert |-> {doc}, drawn |-> 1]

\* PUT /progress/video/{video_uuid}
update_video_progress(token, video_uuid, last_position_sec, delta_seconds, completed) ==
    LET auth == get_current_identity(sessions, token)
    IN  /\ sessions' = Canon(auth.sessions)
        /\ IF auth.status # 200
           THEN /\ resp' = Response("update_video_progress", auth.status, token, None)
                /\ UNCHANGED <<user_progress, certificates, issued>>
           ELSE IF auth.identity.role # "student"
           THEN /\ resp' = Response("update_video_progress", 403, token, None)
                /\ UNCHANGED <<user_progress, certificates, issued>>
           ELSE IF ~\E v \in videos : v.uuid_id = video_uuid
           THEN /\ resp' = Response("update_video_progress", 404, token, None)
                /\ UNCHANGED <<user_progress, certificates, issued>>
           ELSE IF ~has_active_assignment(auth.identity.user_uuid,
                       (CHOOSE v \in videos : v.uuid_id = video_uuid).course_uuid)
           THEN /\ resp' = Response("update_video_progress", 403, token, video_uuid)
                /\ UNCHANGED <<user_progress, certificates, issued>>
           ELSE LET course_uuid == (CHOOSE v \in videos : v.uuid_id = video_uuid).course_uuid
                    UP == upsert_video_progress(auth.identity.user_uuid, video_uuid,
                                                last_position_sec, delta_seconds, completed)
                    made == IF /\ completed = <<TRUE>>
                               /\ all_videos_completed(UP, auth.identity.user_uuid, course_uuid)
                            THEN auto_generate_certificate(certificates, UP,
                                     auth.identity.user_uuid, course_uuid)
                            ELSE [certificates |-> certificates, cert |-> {}, drawn |-> 0]
                IN  /\ user_progress' = UP
                    /\ certificates' = made.certificates
                    /\ issued' = [issued EXCEPT !["certificate"] = @ + made.drawn]
                    /\ resp' = Response("update_video_progress", 200, token, video_uuid)

UpdateVideoProgress ==
    /\ \E token \in Tokens, video_uuid \in VideoIds, last_position_sec \in {60},
          delta_seconds \in {30}, completed \in {<<>>} :
          update_video_progress(token, video_uuid, last_position_sec, delta_seconds, completed)
    /\ UNCHANGED <<acctVars, device_resets, catalogVars, user_courses, stored_files, configVars>>

delete_many_nothing(D, course_id) == D

\* delete_many({"course_uuid": course_id}): the documents that stay.
delete_many(D, course_id) == {d \in D : d.course_uuid # course_id}

\* DELETE /courses/{course_id}
delete_course(token, course_id) ==
    LET auth == require_admin_or_teacher(sessions, token)
    IN  /\ sessions' = Canon(auth.sessions)
        /\ IF auth.status # 200
           THEN /\ resp' = Response("delete_course", auth.status, token, None)
                /\ UNCHANGED <<catalogVars, enrolVars>>
           ELSE IF ~\E c \in courses : c.uuid_id = course_id
           THEN /\ resp' = Response("delete_course", 404, token, course_id)
                /\ UNCHANGED <<catalogVars, enrolVars>>
           ELSE /\ topics' = delete_many(topics, course_id)
                /\ videos' = delete_many(videos, course_id)
                /\ comments' = delete_many(comments, course_id)
                /\ user_courses' = delete_many(user_courses, course_id)
                /\ user_progress' = delete_many(user_progress, course_id)
                /\ courses' = {c \in courses : c.uuid_id # course_id}
                /\ resp' = Response("delete_course", 204, token, course_id)

DeleteCourse ==
    /\ \E token \in Tokens, course_id \in CourseIds \cup {<<"course", n>> : n \in 1..issued["course"]} :
          delete_course(token, course_id)
    /\ UNCHANGED <<acctVars, device_resets, certificates, stored_files, configVars, issued>>

\* The admin and a student are logged in.  Two courses each hold a topic with
\* videos; the student is assigned to the first course, has commented on its
\* topic and has a progress row for its external video.
InitCascade ==
    /\ admins = {Admin1}
    /\ teachers = {Teacher1}
    /\ students = {Student1}
    /\ sessions = {Session(1, Admin1, "admin"), Session(2, Student1, "student")}
    /\ device_resets = {}
    /\ courses = {[Course(1, {}, FALSE) EXCEPT !.total_topics = 1, !.total_videos = 2,
                                               !.total_comments = 1],
                  [Course(2, {}, FALSE) EXCEPT !.total_topics = 1, !.total_videos = 1]}
    /\ topics = {Topic(1, 1, 1), Topic(2, 2, 1)}
    /\ videos = {[Video(1, 1, 1, 1, TRUE, FALSE) EXCEPT !.duration_seconds = 60],
                 Video(2, 1, 1, 2, FALSE, TRUE), Video(3, 2, 2, 1, FALSE, TRUE)}
    /\ comments = {[uuid_id |-> <<"comment", 1>>, parent_type |-> "topic",
                    parent_uuid |-> <<"topic", 1>>, course_uuid |-> <<"course", 1>>,
                    author_role |-> "student", author_uuid |-> Student1.uuid_id,
                    status |-> "visible"]}
    /\ user_courses = {[uuid_id |-> <<"assignment", 1>>, student_uuid |-> Student1.uuid_id,
                        course_uuid |-> <<"course", 1>>, assigned_by_role |-> "admin",
                        assigned_by_uuid |-> Admin1.uuid_id, status |-> "active"]}
    /\ user_progress = {[student_uuid |-> Student1.uuid_id, course_uuid |-> <<"course", 1>>,
                         topic_uuid |-> <<"topic", 1>>, video_uuid |-> <<"video", 2>>,
                         seconds_watched |-> 0, last_position_sec |-> 0, completed |-> TRUE]}
    /\ certificates = {} /\ stored_files = {}
    /\ issued = [k \in Kinds |-> CASE k \in {"session", "course", "topic"} -> 2
                                   [] k = "video" -> 3
                                   [] k \in {"student", "comment", "assignment"} -> 1
                                   [] OTHER -> 0]
    /\ SINGLE_SESSION = FALSE
    /\ MAX_ACTIVE_DEVICES = MaxDevices
    /\ pc = NoFrames
    /\ resp = NoResponse

NextCascade ==
    \/ DeleteCourse
    \/ CreateComment
    \/ UpdateVideoProgress
    \/ AssignCourse

SpecCascade == InitCascade /\ [][NextCascade]_vars

-----------------------------------------------------------------------------
(* Claims about the course cascade, checked under SpecCascade. *)

\* The collections whose documents carry a course_uuid.
RowsOf(T, V, Cm, UC, UP, course_id) ==
    {d \in T : d.course_uuid = course_id} \cup {d \in V : d.course_uuid = course_id}
    \cup {d \in Cm : d.course_uuid = course_id} \cup {d \in UC : d.course_uuid = course_id}
    \cup {d \in UP : d.course_uuid = course_id}

\* C10: after DELETE /courses/{id} succeeds (204), no topic, video, comment,
\* assignment or progress row with that course_uuid remains and the course is
\* gone; a delete by an admin or teacher succeeds exactly when the id names a
\* course, and for an unknown id it answers 404 and deletes nothing.
C10_DeleteCourseCascades ==
    [][resp'.op = "delete_course" =>
         /\ resp'.status = 204 =>
               /\ RowsOf(topics', videos', comments', user_courses', user_progress',
                         resp'.out) = {}
               /\ ~\E c \in courses' : c.uuid_id = resp'.out
         /\ resp'.status = 404 => UNCHANGED <<catalogVars, enrolVars>>
         /\ resp'.status \in {204, 404} =>
               (resp'.status = 404 <=> ~\E c \in courses : c.uuid_id = resp'.out)
      ]_vars

\* The first course, which held a topic, videos, a comment, an assignment and a
\* progress row from the start, has been deleted after a further comment was
\* written in it, and later requests for it are answered 404.
C10_Witness ==
    /\ resp.op = "delete_course" /\ resp.status = 404 /\ resp.out = <<"course", 1>>
    /\ issued["comment"] = MaxComments
    /\ comments = {}
    /\ \E c \in courses : c.uuid_id = <<"course", 2>>

-----------------------------------------------------------------------------
(* Claim about the course counters, checked under SpecOrder. *)

\* C11: after every completed request of any sequence of topic, video and
\* comment creations and deletions through any route, each course's
\* total_topics, total_videos and total_comments equal the number of its topics,
\* of its videos and of its comments whose status is not deleted.
C11_CountersMatchDocuments ==
    \A c \in courses :
       /\ c.total_topics = Cardinality({t \in topics : t.course_uuid = c.uuid_id})
       /\ c.total_videos = Cardinality({v \in videos : v.course_uuid = c.uuid_id})
       /\ c.total_comments = Cardinality({m \in comments : /\ m.course_uuid = c.uuid_id
                                                           /\ m.status # "deleted"})

-----------------------------------------------------------------------------
(* routes/certificates.py *)

\* POST /certificates/course/{course_uuid}/claim
claim_certificate(token, course_uuid) ==
    LET auth == get_current_identity(sessions, token)
        student_uuid == auth.identity.user_uuid
        existing == find_certificate(certificates, student_uuid, course_uuid)
        made == auto_generate_certificate(certificates, user_progress, student_uuid, course_uuid)
        out(cert) == [certificate_id |-> cert.certificate_id, code |-> cert.code]
    IN  /\ sessions' = Canon(auth.sessions)
        /\ UNCHANGED <<acctVars, device_resets, catalogVars, enrolVars, stored_files, configVars>>
        /\ IF auth.status # 200
           THEN /\ resp' = Response("claim_certificate", auth.status, token, None)
                /\ UNCHANGED <<certificates, issued>>
           ELSE IF auth.identity.role # "student" \/ ~has_active_assignment(student_uuid, course_uuid)
           THEN /\ resp' = Response("claim_certificate", 403, token, None)
                /\ UNCHANGED <<certificates, issued>>
           ELSE IF existing # {}
           THEN /\ resp' = Response("claim_certificate", 200, token,
                                    out(CHOOSE c \in existing : TRUE))
                /\ UNCHANGED <<certificates, issued>>
           ELSE IF ~all_videos_completed(user_progress, student_uuid, course_uuid)
           THEN /\ resp' = Response("claim_certificate", 400, token, None)
                /\ UNCHANGED <<certificates, issued>>
           ELSE /\ certificates' = made.certificates
                /\ issued' = [issued EXCEPT !["certificate"] = @ + made.drawn]
                /\ resp' = Response("claim_certificate", 200, token,
                                    out(CHOOSE c \in made.cert : TRUE))

\* POST /certificates/issue
admin_issue_certificate(token, student_uuid, course_uuid) ==
    LET auth == require_admin_or_teacher(sessions, token)
        pair == [student_uuid |-> student_uuid, course_uuid |-> course_uuid]
    IN  /\ sessions' = Canon(auth.sessions)
        /\ UNCHANGED <<acctVars, device_resets, catalogVars, enrolVars, stored_files, configVars>>
        /\ IF auth.status # 200
           THEN /\ resp' = Response("admin_issue_certificate", auth.status, token, None)
                /\ UNCHANGED <<certificates, issued>>
           ELSE IF find_certificate(certificates, student_uuid, course_uuid) # {}
           THEN /\ resp' = Response("admin_issue_certificate", 400, token, pair)
                /\ UNCHANGED <<certificates, issued>>
           ELSE IF \/ ~\E u \in students : u.uuid_id = student_uuid
                   \/ ~\E c \in courses : c.uuid_id = course_uuid
           THEN /\ resp' = Response("admin_issue_certificate", 404, token, pair)
                /\ UNCHANGED <<certificates, issued>>
           ELSE /\ certificates' = certificates
                                     \cup {certificate_doc(student_uuid, course_uuid, "manual")}
                /\ issued' = Drawn("certificate")
                /\ resp' = Response("admin_issue_certificate", 201, token, pair)

\* The body shared by PUT /certificates/{id}, POST .../revoke and POST
\* .../restore: find_one, then update_one with $set.  revoked is <<>> when the
\* update does not name the flag, else <<its value>>.
set_certificate(op, token, certificate_id, revoked) ==
    LET auth == require_admin_or_teacher(sessions, token)
    IN  /\ sessions' = Canon(auth.sessions)
        /\ UNCHANGED <<acctVars, device_resets, catalogVars, enrolVars, stored_files, configVars, issued>>
        /\ IF auth.status # 200
           THEN /\ resp' = Response(op, auth.status, token, None)
                /\ UNCHANGED certificates
           ELSE IF ~\E c \in certificates : c.certificate_id = certificate_id
           THEN /\ resp' = Response(op, 404, token, None)
                /\ UNCHANGED certificates
           ELSE /\ certificates' = {IF c.certificate_id = certificate_id /\ revoked # <<>>
                                    THEN [c EXCEPT !.revoked = revoked[1]] ELSE c
                                    : c \in certificates}
                /\ resp' = Response(op, 200, token, certificate_id)

\* PUT /certificates/{certificate_id} with a payload whose "revoked" is absent,
\* true or false
update_certificate(token, certificate_id, revoked) ==
    set_certificate("update_certificate", token, certificate_id, revoked)

\* POST /certificates/{certificate_id}/revoke
revoke_certificate(token, certificate_id) ==
    set_certificate("revoke_certificate", token, certificate_id, <<TRUE>>)

\* POST /certificates/{certificate_id}/restore
restore_certificate(token, certificate_id) ==
    set_certificate("restore_certificate", token, certificate_id, <<FALSE>>)

verify_certificate_ignoring_revoked(code) ==
    /\ resp' = Response("verify_certificate",
                        IF \E c \in certificates : c.code = code THEN 200 ELSE 404,
                        NoToken, code)
    /\ UNCHANGED <<acctVars, sessions, device_resets, catalogVars, enrolVars, certificates,
                   stored_files, configVars, issued>>

\* GET /certificates/verify/{code}: no identity is resolved.
verify_certificate(code) ==
    LET found == {c \in certificates : c.code = code}
    IN  /\ resp' = Response("verify_certificate",
                            IF found = {} THEN 404
                            ELSE IF (CHOOSE c \in found : TRUE).revoked THEN 400 ELSE 200,
                            NoToken, code)
        /\ UNCHANGED <<acctVars, sessions, device_resets, catalogVars, enrolVars, certificates,
                       stored_files, configVars, issued>>

\* The requests explored: identifiers and codes of existing certificates and
\* one that names none; progress updates carry "completed": true.
NextCertificates ==
    LET CertificateIds == {c.certificate_id : c \in certificates} \cup {Unknown("certificate")}
        Codes == {c.code : c \in certificates} \cup {Unknown("code")}
    IN  \/ /\ \E token \in Tokens, video_uuid \in VideoIds :
                  update_video_progress(token, video_uuid, 60, 30, <<TRUE>>)
            /\ UNCHANGED <<acctVars, device_resets, catalogVars, user_courses, stored_files, configVars>>
        \/ \E token \in Tokens, course_uuid \in CourseIds :
              claim_certificate(token, course_uuid)
        \/ \E token \in Tokens, student_uuid \in StudentIds, course_uuid \in CourseIds :
              admin_issue_certificate(token, student_uuid, course_uuid)
        \/ \E token \in Tokens, certificate_id \in CertificateIds,
              revoked \in {<<>>, <<TRUE>>, <<FALSE>>} :
              update_certificate(token, certificate_id, revoked)
        \/ \E token \in Tokens, certificate_id \in CertificateIds :
              revoke_certificate(token, certificate_id)
        \/ \E token \in Tokens, certificate_id \in CertificateIds :
              restore_certificate(token, certificate_id)
        \/ \E code \in Codes : verify_certificate(code)

SpecCertificates == InitCascade /\ [][NextCertificates]_vars

-----------------------------------------------------------------------------
(* Claims about certificates, checked under SpecCertificates. *)

\* C12: after every request of any sequence of progress updates, certificate
\* claims and manual issues, at most one certificate exists per (student_uuid,
\* course_uuid) pair; running the auto-generation path again for a pair that
\* has a certificate returns that certificate (same certificate_id and code) and
\* inserts nothing; and a manual issue by an admin or teacher for a pair that
\* already has a certificate is answered 400 and leaves the certificates as
\* they were.
C12_OneCertificatePerPair ==
    [][/\ \A a, b \in certificates' :
             (a.student_uuid = b.student_uuid /\ a.course_uuid = b.course_uuid) => a = b
       /\ \A c \in certificates' :
             LET again == auto_generate_certificate(certificates', user_progress',
                                                    c.student_uuid, c.course_uuid)
             IN  /\ again.cert = {c}
                 /\ again.certificates = certificates'
                 /\ again.drawn = 0
       /\ (/\ resp'.op = "admin_issue_certificate"
           /\ resp'.status \notin {401, 403}
           /\ find_certificate(certificates, resp'.out.student_uuid, resp'.out.course_uuid) # {})
          => (resp'.status = 400 /\ certificates' = certificates)
      ]_vars

\* A manual issue has just been rejected for a pair whose certificate the
\* auto-generation path made when the student completed the last video.
C12_Witness ==
    /\ resp.op = "admin_issue_certificate" /\ resp.status = 400
    /\ \E c \in certificates : /\ c.student_uuid = resp.out.student_uuid
                               /\ c.course_uuid = resp.out.course_uuid
                               /\ c.notes = "auto"

\* C13: GET /certificates/verify/{code}, sent without a token, answers 200 for
\* the certificate with that code exactly when one exists and its revoked flag
\* is false at that moment, 404 when no certificate has the code and 400 while
\* the certificate is revoked, whatever revokes, restores and updates came
\* before.
C13_VerifyFollowsRevokedFlag ==
    resp.op = "verify_certificate" =>
       /\ resp.token = NoToken
       /\ resp.status = 200 <=> \E c \in certificates : c.code = resp.out /\ ~c.revoked
       /\ resp.status = 404 <=> ~\E c \in certificates : c.code = resp.out
       /\ resp.status = 400 <=> \E c \in certificates : c.code = resp.out /\ c.revoked

\* A verification has just been refused for the code of a revoked certificate.
C13_Witness ==
    /\ resp.op = "verify_certificate" /\ resp.status = 400
    /\ \E c \in certificates : c.code = resp.out /\ c.revoked

-----------------------------------------------------------------------------
(* routes/comments.py: listings, update and delete *)

list_comments_with_deleted(parent_type, parent_uuid) ==
    {m.uuid_id : m \in {x \in comments : /\ x.parent_type = parent_type
                                          /\ x.parent_uuid = parent_uuid}}

\* list_topic_comments / list_video_comments for an existing parent: the
\* identifiers of the comments returned.
list_comments(parent_type, parent_uuid) ==
    {m.uuid_id : m \in {x \in comments : /\ x.parent_type = parent_type
                                          /\ x.parent_uuid = parent_uuid
                                          /\ x.status # "deleted"}}

\* PUT /comments/{comment_id}; status is <<>> for a payload with content only,
\* else <<the new status>>.
update_comment(token, comment_id, status) ==
    LET auth == get_current_identity(sessions, token)
        found == {m \in comments : m.uuid_id = comment_id}
        existing == CHOOSE m \in found : TRUE
    IN  /\ sessions' = Canon(auth.sessions)
        /\ UNCHANGED <<acctVars, device_resets, courses, topics, videos, enrolVars,
                       certificates, stored_files, configVars, issued>>
        /\ IF auth.status # 200
           THEN /\ resp' = Response("update_comment", auth.status, token, None)
                /\ UNCHANGED comments
           ELSE IF found = {}
           THEN /\ resp' = Response("update_comment", 404, token, None)
                /\ UNCHANGED comments
           ELSE IF /\ auth.identity.user_uuid # existing.author_uuid
                   /\ auth.identity.role \notin {"admin", "teacher"}
                   /\ status # <<>>
           THEN /\ resp' = Response("update_comment", 403, token, None)
                /\ UNCHANGED comments
           ELSE /\ comments' = IF status = <<>> THEN comments
                               ELSE (comments \ found)
                                    \cup {[existing EXCEPT !.status = status[1]]}
                /\ resp' = Response("update_comment", 200, token, comment_id)

\* DELETE /comments/{comment_id}
delete_comment(token, comment_id) ==
    LET auth == get_current_identity(sessions, token)
        found == {m \in comments : m.uuid_id = comment_id}
        existing == CHOOSE m \in found : TRUE
    IN  /\ sessions' = Canon(auth.sessions)
        /\ UNCHANGED <<acctVars, device_resets, topics, videos, enrolVars, certificates,
                       stored_files, configVars, issued>>
        /\ IF auth.status # 200
           THEN /\ resp' = Response("delete_comment", auth.status, token, None)
                /\ UNCHANGED <<courses, comments>>
           ELSE IF found = {}
           THEN /\ resp' = Response("delete_comment", 404, token, None)
                /\ UNCHANGED <<courses, comments>>
           ELSE IF /\ auth.identity.user_uuid # existing.author_uuid
                   /\ auth.identity.role \notin {"admin", "teacher"}
           THEN /\ resp' = Response("delete_comment", 403, token, None)
                /\ UNCHANGED <<courses, comments>>
           ELSE /\ comments' = (comments \ found) \cup {[existing EXCEPT !.status = "deleted"]}
                /\ courses' = recompute_course_counts(courses, topics, videos, comments',
                                                      existing.course_uuid)
                /\ resp' = Response("delete_comment", 204, token, comment_id)

\* The requests explored: comments on the first topic and the first video and
\* on parents that do not exist; updates of the content or of the status.
NextComments ==
    LET CommentIds == {m.uuid_id : m \in comments} \cup {Unknown("comment")}
    IN  \/ /\ \E token \in Tokens, parent_type \in {"topic", "video"}, n \in {0, 1} :
                  create_comment(token, parent_type, <<parent_type, n>>)
            /\ UNCHANGED <<acctVars, device_resets, topics, videos, enrolVars, certificates,
                           stored_files, configVars>>
        \/ \E token \in Tokens, comment_id \in CommentIds,
              status \in {<<>>, <<"visible">>, <<"hidden">>, <<"deleted">>} :
              update_comment(token, comment_id, status)
        \/ \E token \in Tokens, comment_id \in CommentIds : delete_comment(token, comment_id)

SpecComments == InitCascade /\ [][NextComments]_vars

-----------------------------------------------------------------------------
(* Claims about comments, checked under SpecComments. *)

CommentOf(Cm, comment_id) == CHOOSE m \in Cm : m.uuid_id = comment_id

\* The comment is in storage with status deleted, is absent from the listing of
\* its parent, and its course counts exactly the comments that are not deleted.
SoftDeleted(comment_id) ==
    /\ \E m \in comments : m.uuid_id = comment_id
    /\ LET m == CommentOf(comments, comment_id)
       IN  /\ m.status = "deleted"
           /\ comment_id \notin list_comments(m.parent_type, m.parent_uuid)
           /\ \A c \in courses : c.uuid_id = m.course_uuid =>
                 c.total_comments = Cardinality({x \in comments : /\ x.course_uuid = c.uuid_id
                                                                  /\ x.status # "deleted"})

\* C14 as stated: once DELETE /comments/{id} has succeeded the comment never
\* appears in a listing again and stays in storage with status deleted; in
\* particular this is so after the request that follows the delete.
C14_DeletedCommentNeverListedAgain ==
    [][(resp.op = "delete_comment" /\ resp.status = 204) =>
          /\ \E m \in comments' : m.uuid_id = resp.out /\ m.status = "deleted"
          /\ \A parent_type \in {"topic", "video"}, n \in {0, 1} :
                ~(resp.out \in list_comments(parent_type, <<parent_type, n>>)')
      ]_vars

\* C14, amended: right after DELETE /comments/{id} succeeds the comment is in
\* storage with status deleted, is absent from the listing of its topic or
\* video and is not counted in its course's total_comments; and at any time a
\* comment whose status is deleted is absent from the listings.
C14_DeletedCommentHiddenWhileDeleted ==
    /\ (resp.op = "delete_comment" /\ resp.status = 204) => SoftDeleted(resp.out)
    /\ \A m \in comments :
          m.status = "deleted" => m.uuid_id \notin list_comments(m.parent_type, m.parent_uuid)

\* A comment has just been deleted while another comment of the same parent is
\* still listed.
C14_Witness ==
    /\ resp.op = "delete_comment" /\ resp.status = 204
    /\ SoftDeleted(resp.out)
    /\ LET m == CommentOf(comments, resp.out)
       IN  list_comments(m.parent_type, m.parent_uuid) # {}

-----------------------------------------------------------------------------
(* routes/courses.py: course creation and update with titles, slugs and     *)
(* media files.                                                             *)

\* The admin is logged in; one course, of the first teacher, and one student exist.
InitCourses ==
    /\ admins = {Admin1}
    /\ teachers = {Teacher1}
    /\ students = {Student1}
    /\ sessions = {Session(1, Admin1, "admin")}
    /\ device_resets = {}
    /\ courses = {Course(1, {}, FALSE)}
    /\ topics = {}
    /\ videos = {}
    /\ comments = {}
    /\ user_courses = {}
    /\ user_progress = {}
    /\ certificates = {} /\ stored_files = {}
    /\ issued = [k \in Kinds |-> CASE k \in {"session", "student", "course"} -> 1 [] OTHER -> 0]
    /\ SINGLE_SESSION = FALSE
    /\ MAX_ACTIVE_DEVICES = MaxDevices
    /\ pc = NoFrames
    /\ resp = NoResponse

NextCourses ==
    LET Titles == {<<"a">>, <<"A", " ", "2">>}
        Instructors == {t.uuid_id : t \in teachers} \cup {Unknown("teacher")}
    IN  \/ /\ \E token \in Tokens, title \in Titles, instructor_uuid \in Instructors :
                 create_course(token, title, instructor_uuid, {}, FALSE, <<>>, <<>>)
           /\ UNCHANGED <<acctVars, device_resets, topics, videos, comments, user_progress,
                          certificates, configVars>>
        \/ /\ \E token \in Tokens, course_id \in CourseIds, title \in Titles :
                 update_course(token, course_id, <<title>>, <<>>, <<>>, <<>>)
           /\ UNCHANGED <<acctVars, device_resets, topics, videos, comments, enrolVars,
                          certificates, configVars>>
        \/ /\ \E token \in Tokens, course_id \in {<<"course", 1>>, Unknown("course")},
                 instructor_uuid \in {<<>>, <<Unknown("teacher")>>},
                 thumbnail \in {<<>>, <<"image">>, <<"text">>}, intro_video \in {<<>>, <<"text">>} :
                 update_course(token, course_id, <<>>, instructor_uuid, thumbnail, intro_video)
           /\ UNCHANGED <<acctVars, device_resets, topics, videos, comments, enrolVars,
                          certificates, configVars>>

SpecCourses == InitCourses /\ [][NextCourses]_vars

\* C15: a request rejected with a validation-class error (400) leaves every
\* collection and every stored file as it was: nothing is inserted, modified,
\* deleted or replaced (the last-used stamp of the caller's session aside).
C15_RejectedRequestChangesNothing ==
    [][resp'.status = 400
          => /\ UNCHANGED <<acctVars, device_resets, catalogVars, enrolVars, certificates>>
             /\ stored_files \subseteq stored_files']_vars

-----------------------------------------------------------------------------
(* Claims about slugs, checked under SpecCourses. *)

CourseOf(C, course_id) == CHOOSE c \in C : c.uuid_id = course_id

\* slug is what a title slugifying to base_slug gets beside the courses of C:
\* base_slug itself when no course of C has it, else base_slug-i for the
\* least i >= 2 such that no course of C has base_slug-i.
LeastFreeSlug(C, base_slug, slug) ==
    LET used == {c.slug : c \in C}
        suffixed(i) == base_slug \o <<"-">> \o str(i)
    IN  IF base_slug \notin used THEN slug = base_slug
        ELSE \E i \in 2..(Cardinality(C) + 2) :
                /\ slug = suffixed(i)
                /\ slug \notin used
                /\ \A j \in 2..(i - 1) : suffixed(j) \in used

-----------------------------------------------------------------------------
(* Claims about device reset requests, checked under SpecSession. *)

PendingOf(D, student_uuid) ==
    {r \in D : r.student_uuid = student_uuid /\ r.status = "pending"}

\* The user of the session that a token names.
CallerOf(token) == (CHOOSE s \in sessions : s.session_id = token).user_uuid

\* C16: a student never has two pending device reset requests; a reset request
\* submitted by a student who has a pending one is answered with that request,
\* and neither creates nor changes a device reset document.
C16_OnePendingResetPerStudent ==
    /\ [](\A u \in students : Cardinality(PendingOf(device_resets, u.uuid_id)) <= 1)
    /\ [][(/\ resp'.op = "request_device_reset" /\ resp'.status = 201
           /\ PendingOf(device_resets, CallerOf(resp'.token)) # {})
          => /\ device_resets' = device_resets
             /\ issued' = issued
             /\ resp'.out \in {r.request_id :
                                  r \in PendingOf(device_resets, CallerOf(resp'.token))}]_vars

\* A student with two devices logged in holds one pending request, and the
\* last request, sent from the second device, was answered with it.
C16_Witness ==
    /\ resp.op = "request_device_reset" /\ resp.status = 201
    /\ resp.token = <<"session", 2>>
    /\ Cardinality(ActiveIds(sessions, CallerOf(resp.token))) = 2
    /\ PendingOf(device_resets, CallerOf(resp.token)) # {}
    /\ resp.out \in {r.request_id : r \in device_resets}
    /\ issued["reset"] = 1

-----------------------------------------------------------------------------
(* utils/progress.py: clamp_progress applied to drawn arguments.  The call  *)
(* and its result are kept in resp; no collection is involved.              *)

MaxDuration == 10     \* largest video duration, in seconds, that is drawn

InitClamp ==
    /\ admins = {} /\ teachers = {} /\ students = {}
    /\ sessions = {} /\ device_resets = {}
    /\ courses = {} /\ topics = {} /\ videos = {} /\ comments = {}
    /\ user_courses = {} /\ user_progress = {} /\ certificates = {} /\ stored_files = {}
    /\ issued = [k \in Kinds |-> 0]
    /\ SINGLE_SESSION = FALSE
    /\ MAX_ACTIVE_DEVICES = MaxDevices
    /\ pc = NoFrames
    /\ \E seconds_watched \in (0 - 1)..(MaxDuration + 1),
          last_position_sec \in (0 - 1)..(MaxDuration + 1),
          duration \in (0 - 1)..MaxDuration :
          resp = Response("call", 0, NoToken, <<seconds_watched, last_position_sec, duration>>)

ClampProgress ==
    /\ resp.op = "call"
    /\ resp' = Response("clamp_progress", 0, NoToken,
                        [args |-> resp.out,
                         result |-> clamp_progress(resp.out[1], resp.out[2], resp.out[3])])
    /\ UNCHANGED <<acctVars, sessions, device_resets, catalogVars, enrolVars, certificates,
                   stored_files, configVars, issued>>

SpecClamp == InitClamp /\ [][ClampProgress]_vars

\* C17: for a duration > 0 clamp_progress returns both values clamped to
\* [0, duration] and completed = (last_position_sec >= 0.95 * duration, the
\* threshold not rounded down) or (seconds_watched >= duration), on the clamped
\* values; for a duration <= 0 it returns (0, 0, true).
C17_ClampProgressContract ==
    resp.op = "clamp_progress" =>
        LET seconds_watched == resp.out.args[1]
            last_position_sec == resp.out.args[2]
            duration == resp.out.args[3]
            result == resp.out.result
            clamped(x) == IF x < 0 THEN 0 ELSE IF x > duration THEN duration ELSE x
        IN  IF duration <= 0 THEN result = <<0, 0, TRUE>>
            ELSE /\ result[1] = clamped(seconds_watched)
                 /\ result[2] = clamped(last_position_sec)
                 /\ result[3] = (100 * result[2] >= 95 * duration \/ result[1] >= duration)

-----------------------------------------------------------------------------
(* utils/progress.py, routes/progress.py: the course progress summary. *)

\* compute_course_progress; progress_percent and learning_hours, which the
\* code rounds to two decimals, are given in hundredths.
compute_course_progress(student_uuid, course_uuid) ==
    LET course_videos == {v \in videos : v.course_uuid = course_uuid}
        video_map(video_uuid) ==
            LET found == {v \in course_videos : v.uuid_id = video_uuid}
            IN  IF found = {} THEN 0
                ELSE IF (CHOOSE v \in found : TRUE).duration_seconds = Missing THEN 0
                ELSE (CHOOSE v \in found : TRUE).duration_seconds
        RECURSIVE sum_durations(_)
        sum_durations(V) ==
            IF V = {} THEN 0
            ELSE LET v == CHOOSE x \in V : TRUE
                 IN  video_map(v.uuid_id) + sum_durations(V \ {v})
        total_duration == IF sum_durations(course_videos) = 0 THEN 1
                          ELSE sum_durations(course_videos)
        progress_docs == {p \in user_progress :
                             p.student_uuid = student_uuid /\ p.course_uuid = course_uuid}
        RECURSIVE sum_watched(_)
        sum_watched(P) ==
            IF P = {} THEN 0
            ELSE LET p == CHOOSE x \in P : TRUE
                 IN  Min(p.seconds_watched, video_map(p.video_uuid)) + sum_watched(P \ {p})
        watched_sum == sum_watched(progress_docs)
        \* round(num / den, 2) in hundredths, a tie going to the even hundredth
        round2(num, den) ==
            LET q == (num * 100) \div den
                r == (num * 100) % den
            IN  IF 2 * r > den \/ (2 * r = den /\ q % 2 = 1) THEN q + 1 ELSE q
    IN  IF course_videos = {}
        THEN [course_uuid |-> course_uuid, total_videos |-> 0, completed_videos |-> 0,
              progress_percent |-> 0, learning_seconds |-> 0, learning_hours |-> 0]
        ELSE [course_uuid |-> course_uuid, total_videos |-> Cardinality(course_videos),
              completed_videos |-> Cardinality({p \in progress_docs : p.completed}),
              progress_percent |-> round2(watched_sum * 100, total_duration),
              learning_seconds |-> watched_sum,
              learning_hours |-> round2(watched_sum, 3600)]

\* GET /progress/course/{course_uuid}
get_course_progress(token, course_uuid) ==
    LET auth == get_current_identity(sessions, token)
    IN  /\ sessions' = Canon(auth.sessions)
        /\ IF auth.status # 200
           THEN resp' = Response("get_course_progress", auth.status, token, None)
           ELSE IF auth.identity.role # "student"
           THEN resp' = Response("get_course_progress", 403, token, None)
           ELSE IF ~has_active_assignment(auth.identity.user_uuid, course_uuid)
           THEN resp' = Response("get_course_progress", 403, token, None)
           ELSE resp' = Response("get_course_progress", 200, token,
                                 compute_course_progress(auth.identity.user_uuid, course_uuid))

\* POST /progress/video/{video_uuid}/complete; insert_fails: whether
\* certificates.insert_one raises (a lost connection, a duplicate key), which
\* neither _auto_generate_certificate nor the handler catches.
mark_video_complete(token, video_uuid, insert_fails) ==
    LET auth == get_current_identity(sessions, token)
    IN  /\ sessions' = Canon(auth.sessions)
        /\ IF auth.status # 200
           THEN /\ resp' = Response("mark_video_complete", auth.status, token, None)
                /\ UNCHANGED <<user_progress, certificates, issued>>
           ELSE IF auth.identity.role # "student"
           THEN /\ resp' = Response("mark_video_complete", 403, token, None)
                /\ UNCHANGED <<user_progress, certificates, issued>>
           ELSE IF ~\E v \in videos : v.uuid_id = video_uuid
           THEN /\ resp' = Response("mark_video_complete", 404, token, None)
                /\ UNCHANGED <<user_progress, certificates, issued>>
           ELSE IF ~has_active_assignment(auth.identity.user_uuid,
                       (CHOOSE v \in videos : v.uuid_id = video_uuid).course_uuid)
           THEN /\ resp' = Response("mark_video_complete", 403, token, video_uuid)
                /\ UNCHANGED <<user_progress, certificates, issued>>
           ELSE LET video == CHOOSE v \in videos : v.uuid_id = video_uuid
                    UP == upsert_video_progress(auth.identity.user_uuid, video_uuid,
                                                video.duration, video.duration, <<TRUE>>)
                    made == IF all_videos_completed(UP, auth.identity.user_uuid, video.course_uuid)
                            THEN auto_generate_certificate(certificates, UP,
                                     auth.identity.user_uuid, video.course_uuid)
                            ELSE [certificates |-> certificates, cert |-> {}, drawn |-> 0]
                IN  /\ user_progress' = UP
                    /\ IF made.drawn = 1 /\ insert_fails
                       THEN /\ resp' = Response("mark_video_complete", 500, token, video_uuid)
                            /\ UNCHANGED <<certificates, issued>>
                       ELSE /\ certificates' = made.certificates
                            /\ issued' = [issued EXCEPT !["certificate"] = @ + made.drawn]
                            /\ resp' = Response("mark_video_complete", 200, token, video_uuid)

NextProgress ==
    \/ /\ \E token \in Tokens, video_uuid \in VideoIds, insert_fails \in BOOLEAN :
             mark_video_complete(token, video_uuid, insert_fails)
       /\ UNCHANGED <<acctVars, device_resets, catalogVars, user_courses, stored_files,
                      configVars>>
    \/ /\ \E token \in Tokens, video_uuid \in VideoIds, last_position_sec \in {0, 30, 60},
             delta_seconds \in {0, 30}, completed \in {<<>>, <<TRUE>>, <<FALSE>>} :
             update_video_progress(token, video_uuid, last_position_sec, delta_seconds, completed)
       /\ UNCHANGED <<acctVars, device_resets, catalogVars, user_courses, stored_files,
                      configVars>>
    \/ /\ \E token \in Tokens, course_uuid \in CourseIds : get_course_progress(token, course_uuid)
       /\ UNCHANGED <<acctVars, device_resets, catalogVars, enrolVars, certificates,
                      stored_files, configVars, issued>>

SpecProgress == InitCascade /\ [][NextProgress]_vars

\* The duration that a video document records.
DurationOf(v) == IF v.duration_seconds # Missing THEN v.duration_seconds ELSE v.duration

RECURSIVE SumOver(_, _)
SumOver(S, f) == IF S = {} THEN 0
                 ELSE LET x == CHOOSE y \in S : TRUE IN f[x] + SumOver(S \ {x}, f)

\* C18: for a course with at least one video the reported progress_percent is
\* 100 * (sum over the student's progress rows of min(seconds_watched, the
\* video's duration)) / (sum of the durations of the course's videos), to two
\* decimals and between 0 and 100, and completed_videos is the number of the
\* student's rows of the course with completed true; for a course without
\* videos everything reported is zero.
C18_CourseProgressSummary ==
    (resp.op = "get_course_progress" /\ resp.status = 200) =>
        LET student_uuid == CallerOf(resp.token)
            V == {v \in videos : v.course_uuid = resp.out.course_uuid}
            P == {p \in user_progress : p.student_uuid = student_uuid
                                        /\ p.course_uuid = resp.out.course_uuid}
            total == SumOver(V, [v \in V |-> DurationOf(v)])
            watched == SumOver(P, [p \in P |->
                          LET d == SumOver({v \in V : v.uuid_id = p.video_uuid},
                                           [v \in V |-> DurationOf(v)])
                          IN  Min(p.seconds_watched, d)])
            diff == resp.out.progress_percent * total - watched * 10000
        IN  IF V = {}
            THEN /\ resp.out.total_videos = 0 /\ resp.out.completed_videos = 0
                 /\ resp.out.progress_percent = 0 /\ resp.out.learning_seconds = 0
            ELSE /\ resp.out.completed_videos = Cardinality({p \in P : p.completed})
                 /\ resp.out.progress_percent \in 0..10000
                 /\ total > 0 => (2 * diff <= total /\ 0 - 2 * diff <= total)

-----------------------------------------------------------------------------
(* Claims about department matching, checked under SpecAssign. *)

DepartmentOf(student_uuid) == (CHOOSE u \in students : u.uuid_id = student_uuid).department

SystemAssigned(student_uuid, course_uuid) ==
    Cardinality({a \in AssignmentsOf(student_uuid, course_uuid) :
                    a.status = "active" /\ a.assigned_by_role = "system"}) = 1

-----------------------------------------------------------------------------
(* Claims about progress updates and certificates, checked under SpecProgress. *)

VideoOf(video_uuid) == CHOOSE v \in videos : v.uuid_id = video_uuid

\* Every video of the course has a completed progress row of the student.
CourseCompletedBy(student_uuid, course_uuid) ==
    \A v \in {x \in videos : x.course_uuid = course_uuid} :
       \E p \in user_progress : /\ p.student_uuid = student_uuid
                                /\ p.video_uuid = v.uuid_id
                                /\ p.completed

\* C21: when a progress update has succeeded and every video of the course
\* has a completed row of the student, a certificate of the student for the
\* course exists, whether the row became completed by the explicit flag or by
\* the automatic threshold rule.
C21_CompletionIssuesCertificate ==
    (resp.op = "update_video_progress" /\ resp.status = 200) =>
        LET student_uuid == CallerOf(resp.token)
            course_uuid == VideoOf(resp.out).course_uuid
        IN  CourseCompletedBy(student_uuid, course_uuid)
               => \E c \in certificates : /\ c.student_uuid = student_uuid
                                          /\ c.course_uuid = course_uuid

\* C22: a force-complete or progress update that passed its checks is
\* answered with success and has persisted the completed progress row, also
\* when the certificate auto-generation that it triggers fails.
C22_CertificateFailureKeepsProgress ==
    (resp.op \in {"mark_video_complete", "update_video_progress"}
        /\ resp.status \notin {401, 403, 404}) =>
        /\ resp.status = 200
        /\ \E p \in user_progress : /\ p.student_uuid = CallerOf(resp.token)
                                    /\ p.video_uuid = resp.out

-----------------------------------------------------------------------------
(* Claims about automatic completion, checked under SpecCascade, whose      *)
(* progress updates carry no completed flag.                                *)

RowOf(UP, student_uuid, video_uuid) ==
    CHOOSE p \in UP : p.student_uuid = student_uuid /\ p.video_uuid = video_uuid

\* C23: for a video created through POST /videos/topic/{id} with a duration
\* D > 0, a progress update without a completed flag stores completed = true
\* only if the stored last position is at least 95% of D or the stored
\* seconds_watched has reached D.
C23_AutoCompletionNeedsThreshold ==
    [][(resp'.op = "update_video_progress" /\ resp'.status = 200) =>
          LET v == VideoOf(resp'.out)
              p == RowOf(user_progress', CallerOf(resp'.token), resp'.out)
          IN  (v.duration_seconds = Missing /\ v.duration > 0 /\ p.completed)
                 => \/ 100 * p.last_position_sec >= 95 * v.duration
                    \/ p.seconds_watched >= v.duration]_vars

-----------------------------------------------------------------------------
(* The student paths to a certificate, with video deletions and assignments
   in between: routes/progress.py, routes/certificates.py, routes/videos.py,
   routes/assignments.py. *)

NextClaim ==
    \/ /\ \E token \in Tokens, video_uuid \in VideoIds, completed \in {<<>>, <<TRUE>>} :
             update_video_progress(token, video_uuid, 60, 30, completed)
       /\ UNCHANGED <<acctVars, device_resets, catalogVars, user_courses, stored_files,
                      configVars>>
    \/ /\ \E token \in Tokens, video_uuid \in VideoIds :
             mark_video_complete(token, video_uuid, FALSE)
       /\ UNCHANGED <<acctVars, device_resets, catalogVars, user_courses, stored_files,
                      configVars>>
    \/ \E token \in Tokens, course_uuid \in CourseIds : claim_certificate(token, course_uuid)
    \/ /\ \E token \in Tokens, video_id \in VideoIds : delete_video(token, video_id)
       /\ UNCHANGED <<acctVars, device_resets, topics, user_courses, certificates,
                      stored_files, configVars, issued>>
    \/ /\ \E token \in Tokens, course_uuid \in CourseIds :
             assign_course(token, course_uuid, <<Student1.uuid_id>>)
       /\ UNCHANGED <<acctVars, device_resets, catalogVars, user_progress, certificates,
                      stored_files, configVars>>

SpecClaim == InitCascade /\ [][NextClaim]_vars

\* C24: a certificate that a progress update, a forced completion or a claim
\* of a student creates is created in a state where its course has at least
\* one video and every video of the course has a completed progress row of
\* that student, so none is created for a course without videos.
C24_CertificateNeedsEveryVideoCompleted ==
    [][\A c \in certificates' \ certificates :
             /\ \E v \in videos' : v.course_uuid = c.course_uuid
             /\ \A v \in {x \in videos' : x.course_uuid = c.course_uuid} :
                   \E p \in user_progress' : /\ p.student_uuid = c.student_uuid
                                             /\ p.video_uuid = v.uuid_id
                                             /\ p.completed]_vars

\* A certificate exists for a course that has lost a video, and a claim for an
\* assigned course without videos has been refused.
C24_Witness ==
    /\ \E c \in certificates :
          Cardinality({v \in videos : v.course_uuid = c.course_uuid}) = 1
    /\ \E c \in courses : /\ has_active_assignment(Student1.uuid_id, c.uuid_id)
                           /\ ~\E v \in videos : v.course_uuid = c.uuid_id
    /\ resp.op = "claim_certificate"
    /\ resp.status = 400

-----------------------------------------------------------------------------
(* Claim about the resolution of device reset requests, checked under
   SpecSession. *)

\* The sessions and whether each is revoked; last_used_at, which every
\* authenticated request refreshes, is left out.
Revocations(S) == {<<s.session_id, s.user_uuid, s.revoked>> : s \in S}

-----------------------------------------------------------------------------
(* Claim about the density of order_index, checked under SpecOrder. *)

\* C26: after every topic and video request, the topics of each course carry
\* the order_index values 1..N, N their number, and so do the videos of each
\* topic.
C26_OrderIndexDense ==
    /\ \A c \in courses : ContiguousOrders({t \in topics : t.course_uuid = c.uuid_id})
    /\ \A t \in topics : ContiguousOrders({v \in videos : v.topic_uuid = t.uuid_id})

-----------------------------------------------------------------------------
(* scripts/seed_courses.py.  Every database call of the script is one step;
   pc holds the local variables of run() and the line it has reached. *)

MaxRuns == 2          \* times the seed script is run, one after the other

DemoEmail == "ada@demo.local"
\* The three titles of run(), written in the alphabet of slugify; their slugs
\* differ from one another, as those of the script's titles do.
SeedTitles == << <<"A", "i">>, <<"m", "i">>, <<"c", "i">> >>
\* add_video calls of one course: <<topic of the course, order_index, duration>>
SeedVideos == << <<1, 1, 180>>, <<1, 2, 240>>, <<2, 1, 360>>, <<2, 2, 420>>, <<3, 1, 300>> >>
SeedTopics == 3       \* add_topic calls of one course, with order_index 1, 2, 3

Frame(run, first) ==
    [run |-> run, line |-> "upsert_teacher", i |-> 1, k |-> 1, instructor |-> None,
     cid |-> None, t |-> <<>>, first |-> first]

\* insert_one into topics, the unique index on (course_uuid, order_index) ignored
add_topic_unindexed(T, n, course_uuid, order_index) ==
    [topics |-> T \cup {[uuid_id |-> <<"topic", n>>, course_uuid |-> course_uuid,
                         order_index |-> order_index]},
     ok |-> TRUE, uuid_id |-> <<"topic", n>>]

\* add_topic: insert_one under the unique index on (course_uuid, order_index)
add_topic(T, n, course_uuid, order_index) ==
    IF \E d \in T : d.course_uuid = course_uuid /\ d.order_index = order_index
    THEN [topics |-> T, ok |-> FALSE, uuid_id |-> None]
    ELSE [topics |-> T \cup {[uuid_id |-> <<"topic", n>>, course_uuid |-> course_uuid,
                              order_index |-> order_index]},
          ok |-> TRUE, uuid_id |-> <<"topic", n>>]

\* add_video: insert_one under the unique index on (topic_uuid, order_index)
add_video(V, n, course_uuid, topic_uuid, order_index, duration) ==
    IF \E d \in V : d.topic_uuid = topic_uuid /\ d.order_index = order_index
    THEN [videos |-> V, ok |-> FALSE]
    ELSE [videos |-> V \cup {[Video(n, course_uuid[2], topic_uuid[2], order_index, FALSE, TRUE)
                                 EXCEPT !.duration = Missing, !.duration_seconds = duration]},
          ok |-> TRUE]

seedRest == <<admins, students, sessions, device_resets, comments, enrolVars, certificates,
              stored_files, SINGLE_SESSION, MAX_ACTIVE_DEVICES, resp>>

SeedUpsertTeacher ==
    /\ pc.line = "upsert_teacher"
    /\ LET found == {t \in teachers : t.email_id = DemoEmail}
           tid == <<"teacher", issued["teacher"] + 1>>
       IN  IF found # {}
           THEN /\ pc' = [pc EXCEPT !.instructor = (CHOOSE t \in found : TRUE).uuid_id,
                                    !.line = "upsert_course"]
                /\ UNCHANGED <<teachers, issued>>
           ELSE /\ teachers' = teachers \cup {[uuid_id |-> tid, email_id |-> DemoEmail]}
                /\ issued' = [issued EXCEPT !["teacher"] = @ + 1]
                /\ pc' = [pc EXCEPT !.instructor = tid, !.line = "upsert_course"]
    /\ UNCHANGED <<seedRest, courses, topics, videos>>

SeedUpsertCourse ==
    /\ pc.line = "upsert_course"
    /\ LET title == SeedTitles[pc.i]
           slug == slugify(title)
           found == {c \in courses : c.slug = slug}
           n == issued["course"] + 1
       IN  IF found # {}
           THEN /\ pc' = [pc EXCEPT !.cid = (CHOOSE c \in found : TRUE).uuid_id,
                                    !.line = "add_topic", !.k = 1, !.t = <<>>]
                /\ UNCHANGED <<courses, issued>>
           ELSE /\ courses' = courses \cup
                       {CourseDoc(n, title, slug, pc.instructor, {}, FALSE, None, None)}
                /\ issued' = [issued EXCEPT !["course"] = @ + 1]
                /\ pc' = [pc EXCEPT !.cid = <<"course", n>>,
                                    !.line = "add_topic", !.k = 1, !.t = <<>>]
    /\ UNCHANGED <<seedRest, teachers, topics, videos>>

SeedAddTopic ==
    /\ pc.line = "add_topic"
    /\ LET made == add_topic(topics, issued["topic"] + 1, pc.cid, pc.k)
       IN  IF ~made.ok
           THEN /\ pc' = [pc EXCEPT !.line = "aborted"]
                /\ UNCHANGED <<topics, issued>>
           ELSE /\ topics' = made.topics
                /\ issued' = [issued EXCEPT !["topic"] = @ + 1]
                /\ pc' = [pc EXCEPT !.t = Append(@, made.uuid_id),
                                    !.k = IF pc.k = SeedTopics THEN 1 ELSE pc.k + 1,
                                    !.line = IF pc.k = SeedTopics THEN "add_video"
                                             ELSE "add_topic"]
    /\ UNCHANGED <<seedRest, teachers, courses, videos>>

SeedAddVideo ==
    /\ pc.line = "add_video"
    /\ LET plan == SeedVideos[pc.k]
           made == add_video(videos, issued["video"] + 1, pc.cid, pc.t[plan[1]], plan[2], plan[3])
       IN  IF ~made.ok
           THEN /\ pc' = [pc EXCEPT !.line = "aborted"]
                /\ UNCHANGED <<videos, issued>>
           ELSE /\ videos' = made.videos
                /\ issued' = [issued EXCEPT !["video"] = @ + 1]
                /\ pc' = [pc EXCEPT !.k = IF pc.k = Len(SeedVideos) THEN 1 ELSE pc.k + 1,
                                    !.line = IF pc.k = Len(SeedVideos) THEN "recompute_counts"
                                             ELSE "add_video"]
    /\ UNCHANGED <<seedRest, teachers, courses, topics>>

SeedRecomputeCounts ==
    /\ pc.line = "recompute_counts"
    /\ courses' = recompute_course_counts(courses, topics, videos, comments, pc.cid)
    /\ pc' = [pc EXCEPT !.i = IF pc.i = Len(SeedTitles) THEN pc.i ELSE pc.i + 1,
                        !.line = IF pc.i = Len(SeedTitles) THEN "done" ELSE "upsert_course"]
    /\ UNCHANGED <<seedRest, teachers, topics, videos, issued>>

\* python -m scripts.seed_courses once more, after the run before it has ended
SeedRunAgain ==
    /\ pc.line \in {"done", "aborted"}
    /\ pc.run < MaxRuns
    /\ pc' = Frame(pc.run + 1, IF pc.run = 1 THEN <<[teachers |-> teachers, courses |-> courses,
                                                      topics |-> topics, videos |-> videos]>>
                               ELSE pc.first)
    /\ UNCHANGED <<seedRest, teachers, courses, topics, videos, issued>>

\* The database before the first run: empty, or with the demo teacher and some
\* of the three courses already created through the API, without topics.
InitSeed ==
    /\ admins = {Admin1}
    /\ students = {}
    /\ sessions = {}
    /\ device_resets = {}
    /\ \E known \in BOOLEAN, S \in SUBSET (1..Len(SeedTitles)) :
          /\ (~known) => S = {}
          /\ teachers = IF known THEN {[uuid_id |-> <<"teacher", 1>>, email_id |-> DemoEmail]}
                        ELSE {}
          /\ courses = {CourseDoc(i, SeedTitles[i], slugify(SeedTitles[i]), <<"teacher", 1>>,
                                  {}, FALSE, None, None) : i \in S}
    /\ topics = {}
    /\ videos = {}
    /\ comments = {}
    /\ user_courses = {}
    /\ user_progress = {}
    /\ certificates = {} /\ stored_files = {}
    /\ issued = [k \in Kinds |-> CASE k = "course" -> Len(SeedTitles)
                                   [] k = "teacher" -> 1
                                   [] OTHER -> 0]
    /\ SINGLE_SESSION = FALSE
    /\ MAX_ACTIVE_DEVICES = MaxDevices
    /\ pc = Frame(1, <<>>)
    /\ resp = NoResponse

NextSeed ==
    \/ SeedUpsertTeacher
    \/ SeedUpsertCourse
    \/ SeedAddTopic
    \/ SeedAddVideo
    \/ SeedRecomputeCounts
    \/ SeedRunAgain

SpecSeed == InitSeed /\ [][NextSeed]_vars

\* C27: when a run of the seed script after the first has ended, the database
\* holds what it held when the first run ended: one demo teacher, the three
\* demo courses, and for each course three topics at order_index 1, 2, 3 and
\* five videos, no two topics of a course and no two videos of a topic at the
\* same order_index.
C27_SeedTwiceAsOnce ==
    (pc.run >= 2 /\ pc.line \in {"done", "aborted"}) =>
        /\ pc.first = <<[teachers |-> teachers, courses |-> courses,
                         topics |-> topics, videos |-> videos]>>
        /\ Cardinality({t \in teachers : t.email_id = DemoEmail}) = 1
        /\ Cardinality(courses) = Len(SeedTitles)
        /\ \A i \in 1..Len(SeedTitles) :
              \E c \in courses :
                 /\ c.slug = slugify(SeedTitles[i])
                 /\ LET T == {t \in topics : t.course_uuid = c.uuid_id}
                        V == {v \in videos : v.course_uuid = c.uuid_id}
                    IN  /\ Cardinality(T) = SeedTopics
                        /\ {t.order_index : t \in T} = 1..SeedTopics
                        /\ Cardinality(V) = Len(SeedVideos)
                        /\ \A a, b \in V : (a.topic_uuid = b.topic_uuid
                                            /\ a.order_index = b.order_index) => a = b
                        /\ \A v \in V : \E t \in T : t.uuid_id = v.topic_uuid

\* The second run has ended on a database that the first run filled.
C27_Witness ==
    /\ pc.run = 2
    /\ pc.line \in {"done", "aborted"}
    /\ Cardinality(topics) = SeedTopics * Len(SeedTitles)
    /\ Cardinality(videos) = Len(SeedVideos) * Len(SeedTitles)

-----------------------------------------------------------------------------
(* routes/auth.py login of one student, served by several workers at once:
   every database call of the session handling is one step, and pc[p] holds
   the local variables of the login that worker p serves. *)

MaxLogins == 3        \* logins of the student that are in progress together

LoginFrame == [line |-> "revoke_all_sessions", oldest |-> None]

\* if SINGLE_SESSION: revoke_all_sessions(user_uuid)
LoginRevokeAll(p) ==
    /\ pc[p].line = "revoke_all_sessions"
    /\ sessions' = IF SINGLE_SESSION
                   THEN Canon(revoke_all_sessions(sessions, Student1.uuid_id))
                   ELSE sessions
    /\ pc' = [pc EXCEPT ![p].line = "create_session"]
    /\ UNCHANGED issued

\* session = create_session(user_uuid, role, ...)
LoginCreateSession(p) ==
    /\ pc[p].line = "create_session"
    /\ sessions' = Canon(create_session(sessions, uuid4("session"), Student1.uuid_id, "student"))
    /\ issued' = Drawn("session")
    /\ pc' = [pc EXCEPT ![p].line = "get_active_sessions"]

\* enforce_device_limit: sessions = get_active_sessions(user_uuid) and the test
LoginGetActiveSessions(p) ==
    /\ pc[p].line = "get_active_sessions"
    /\ LET active == get_active_sessions(sessions, Student1.uuid_id)
       IN  pc' = IF Len(active) <= MAX_ACTIVE_DEVICES
                 THEN [pc EXCEPT ![p].line = "done"]
                 ELSE [pc EXCEPT ![p].line = "revoke_session",
                                 ![p].oldest = active[1].session_id]
    /\ UNCHANGED <<sessions, issued>>

\* enforce_device_limit: revoke_session(oldest["session_id"])
LoginRevokeOldest(p) ==
    /\ pc[p].line = "revoke_session"
    /\ sessions' = Canon(revoke_session(sessions, pc[p].oldest))
    /\ pc' = [pc EXCEPT ![p].line = "done"]
    /\ UNCHANGED issued

\* The student holds up to MAX_ACTIVE_DEVICES active sessions when the logins
\* start, all of them with verified credentials.
InitLogins ==
    /\ admins = {Admin1}
    /\ teachers = {}
    /\ students = {Student1}
    /\ MAX_ACTIVE_DEVICES \in 1..MaxDevices
    /\ SINGLE_SESSION \in BOOLEAN
    /\ \E n \in 0..MAX_ACTIVE_DEVICES :
          sessions = {[Session(i, Student1, "student") EXCEPT !.last_used_at = i] : i \in 1..n}
    /\ device_resets = {}
    /\ courses = {} /\ topics = {} /\ videos = {} /\ comments = {}
    /\ user_courses = {} /\ user_progress = {} /\ certificates = {} /\ stored_files = {}
    /\ issued = [k \in Kinds |-> CASE k = "session" -> MaxDevices
                                   [] k = "student" -> 1
                                   [] OTHER -> 0]
    /\ pc = [p \in 1..MaxLogins |-> LoginFrame]
    /\ resp = NoResponse

NextLogins ==
    /\ \E p \in 1..MaxLogins :
          \/ LoginRevokeAll(p)
          \/ LoginCreateSession(p)
          \/ LoginGetActiveSessions(p)
          \/ LoginRevokeOldest(p)
    /\ UNCHANGED <<acctVars, device_resets, catalogVars, enrolVars, certificates, stored_files,
                   SINGLE_SESSION, MAX_ACTIVE_DEVICES, resp>>

SpecLogins == InitLogins /\ [][NextLogins]_vars

\* C28: once every one of the interleaved logins of the student has
\* completed, the student has at most MAX_ACTIVE_DEVICES active sessions.
C28_InterleavedLoginsKeepLimit ==
    (\A p \in 1..MaxLogins : pc[p].line = "done")
        => Cardinality(ActiveIds(sessions, Student1.uuid_id)) <= MAX_ACTIVE_DEVICES

-----------------------------------------------------------------------------
(* Claim about the stickiness of completion, checked under SpecProgress. *)

\* The step is a progress update that carries no completed flag.
UpdateWithoutFlag ==
    \E token \in Tokens, video_uuid \in VideoIds, last_position_sec \in {0, 30, 60},
       delta_seconds \in {0, 30} :
       update_video_progress(token, video_uuid, last_position_sec, delta_seconds, <<>>)

\* C29: a progress update without a completed flag leaves every row that was
\* completed completed, and no progress update or forced completion lowers
\* the seconds_watched of a row.
C29_CompletionIsSticky ==
    [][/\ UpdateWithoutFlag =>
             \A p \in user_progress : p.completed =>
                \E q \in user_progress' : /\ q.student_uuid = p.student_uuid
                                          /\ q.video_uuid = p.video_uuid
                                          /\ q.completed
       /\ \A p \in user_progress :
             \E q \in user_progress' : /\ q.student_uuid = p.student_uuid
                                       /\ q.video_uuid = p.video_uuid
                                       /\ q.seconds_watched >= p.seconds_watched]_vars

-----------------------------------------------------------------------------
(* Account deletion: routes/student.py, routes/admin.py, routes/teachers.py.
   The accounts of the model carry no avatar, so no file is deleted. *)

\* DELETE /students/{uuid_id}; the route has no dependency on an identity
delete_student(uuid_id) ==
    IF ~\E u \in students : u.uuid_id = uuid_id
    THEN /\ resp' = Response("delete_student", 404, NoToken, None)
         /\ UNCHANGED students
    ELSE /\ students' = {u \in students : u.uuid_id # uuid_id}
         /\ resp' = Response("delete_student", 204, NoToken, None)

\* DELETE /admins/{uuid_id}; the route has no dependency on an identity
delete_admin(uuid_id) ==
    IF ~\E u \in admins : u.uuid_id = uuid_id
    THEN /\ resp' = Response("delete_admin", 404, NoToken, None)
         /\ UNCHANGED admins
    ELSE /\ admins' = {u \in admins : u.uuid_id # uuid_id}
         /\ resp' = Response("delete_admin", 204, NoToken, None)

\* DELETE /teachers/{uuid_id}
delete_teacher(token, uuid_id) ==
    LET auth == require_admin(sessions, token)
    IN  /\ sessions' = Canon(auth.sessions)
        /\ IF auth.status # 200
           THEN /\ resp' = Response("delete_teacher", auth.status, token, None)
                /\ UNCHANGED teachers
           ELSE IF ~\E u \in teachers : u.uuid_id = uuid_id
           THEN /\ resp' = Response("delete_teacher", 404, token, None)
                /\ UNCHANGED teachers
           ELSE IF \E c \in courses : c.instructor_uuid = uuid_id
           THEN /\ resp' = Response("delete_teacher", 400, token, None)
                /\ UNCHANGED teachers
           ELSE /\ teachers' = {u \in teachers : u.uuid_id # uuid_id}
                /\ resp' = Response("delete_teacher", 204, token, None)

\* Two admins, a teacher who owns a course and one who owns none, and a
\* student; one admin, the free teacher and the student are logged in.
InitAccounts ==
    /\ admins = {Admin1, [uuid_id |-> <<"admin", 2>>, email_id |-> "admin2@x"]}
    /\ teachers = {Teacher1, [uuid_id |-> <<"teacher", 2>>, email_id |-> "t2@x"]}
    /\ students = {Student1}
    /\ sessions = {Session(1, Admin1, "admin"),
                   [session_id |-> <<"session", 2>>, user_uuid |-> <<"teacher", 2>>,
                    role |-> "teacher", last_used_at |-> 1, revoked |-> FALSE],
                   Session(3, Student1, "student")}
    /\ device_resets = {}
    /\ courses = {Course(1, {}, FALSE)}
    /\ topics = {} /\ videos = {} /\ comments = {}
    /\ user_courses = {} /\ user_progress = {} /\ certificates = {} /\ stored_files = {}
    /\ issued = [k \in Kinds |-> CASE k = "session" -> 3
                                   [] k = "teacher" -> 2
                                   [] k \in {"student", "course"} -> 1
                                   [] OTHER -> 0]
    /\ SINGLE_SESSION = FALSE
    /\ MAX_ACTIVE_DEVICES = MaxDevices
    /\ pc = NoFrames
    /\ resp = NoResponse

NextAccounts ==
    \/ /\ \E uuid_id \in StudentIds : delete_student(uuid_id)
       /\ UNCHANGED <<admins, teachers, sessions, device_resets, catalogVars, enrolVars,
                      certificates, stored_files, configVars, issued>>
    \/ /\ \E uuid_id \in {u.uuid_id : u \in admins} \cup {Unknown("admin")} :
             delete_admin(uuid_id)
       /\ UNCHANGED <<teachers, students, sessions, device_resets, catalogVars, enrolVars,
                      certificates, stored_files, configVars, issued>>
    \/ /\ \E token \in Tokens, uuid_id \in {u.uuid_id : u \in teachers} \cup {Unknown("teacher")} :
             delete_teacher(token, uuid_id)
       /\ UNCHANGED <<admins, students, device_resets, catalogVars, enrolVars,
                      certificates, stored_files, configVars, issued>>
    \/ ListSessions
    \/ LogoutCurrent

SpecAccounts == InitAccounts /\ [][NextAccounts]_vars

\* The user that the session of a token belongs to has an account.
AccountExists(user_uuid) ==
    \E u \in admins \cup teachers \cup students : u.uuid_id = user_uuid

\* C30: every session of a user whose account has been deleted is revoked,
\* and a protected request that carries a token of such a user is answered 401.
C30_DeletedUserIsLockedOut ==
    [][/\ \A s \in sessions' :
             (~\E u \in admins' \cup teachers' \cup students' : u.uuid_id = s.user_uuid)
                => s.revoked
       /\ (/\ resp'.op \in ProtectedOps \cup {"delete_teacher"}
           /\ resp'.token # NoToken
           /\ ~AccountExists(SessionOf(sessions, resp'.token).user_uuid))
          => resp'.status = 401]_vars

====
